---- MODULE Spec2Model ----
(***************************************************************************)
(* A model of skywalker's ensemble loader and container                    *)
(* (src/src/skywalker.c): the YAML event handler, the postprocessor, the   *)
(* ensemble builder, and the public operations on a loaded ensemble.       *)
(*                                                                         *)
(* Conventions.                                                            *)
(*  - A C string is a sequence of one-character strings, so that the code  *)
(*    that works character by character (name validation, the log10        *)
(*    wrapper, the string hash of the tables) can be written as it is.     *)
(*  - A real number is an integer; the files of the model only hold        *)
(*    integer tokens.                                                      *)
(*  - A khash table is a function from its keys to its values. Its         *)
(*    iteration order is the order of the buckets, computed from the       *)
(*    string hash of the keys (kh_order).                                  *)
(*  - assert(c) with c false aborts the process (status = "aborted").      *)
(***************************************************************************)
EXTENDS Integers, Sequences, FiniteSets, TLC

VARIABLES
  status,      \* "running", or how the process ended: "aborted" (assert), "crashed"
  loaded,      \* TRUE while the caller holds an ensemble handle
  source,      \* the file and settings block name of the last sw_load_ensemble call
  result,      \* the sw_ensemble_result_t returned by the last sw_load_ensemble call
  size,        \* sw_ensemble_t.size
  position,    \* sw_ensemble_t.position
  inputs,      \* sw_ensemble_t.inputs  : sequence of sw_input_t
  outputs,     \* sw_ensemble_t.outputs : sequence of sw_output_t
  settings,    \* sw_ensemble_t.settings: NULL or the table of settings
  in_handle,   \* *input of the caller after the last sw_ensemble_next (record index or NULL)
  out_handle,  \* *output of the caller after the last sw_ensemble_next
  next_ret,    \* what the last sw_ensemble_next returned
  calls,       \* number of sw_ensemble_next calls of the caller's loop at hand
  passes,      \* number of completed passes (next returned false) since load
  lookup,      \* the result of the last has/get call
  nsets,       \* number of sw_output_set / sw_output_set_array calls since load
  yaml,        \* the yaml_data_t that parse_yaml returned in the last load
  held,        \* the result and the ensemble of an earlier load that the caller keeps
  parser       \* parse_yaml in its loop: the file, the events handled, parser_state_t, yaml_data_t

vars == <<status, loaded, source, result, size, position, inputs, outputs,
          settings, in_handle, out_handle, next_ret, calls, passes, lookup,
          nsets, yaml, held, parser>>

\* The null pointer to a string: a sequence that is no string (its one element
\* is not a character).
NULL == <<"">>

\* The null pointer to a record of the ensemble (records are numbered from 0).
NullHandle == -1

----------------------------------------------------------------------------
(* Characters and strings                                                  *)

Lower == <<"a","b","c","d","e","f","g","h","i","j","k","l","m",
           "n","o","p","q","r","s","t","u","v","w","x","y","z">>
Upper == <<"A","B","C","D","E","F","G","H","I","J","K","L","M",
           "N","O","P","Q","R","S","T","U","V","W","X","Y","Z">>
Digit == <<"0","1","2","3","4","5","6","7","8","9">>

Range(s) == {s[i] : i \in DOMAIN s}

IndexOf(s, c) == CHOOSE i \in DOMAIN s : s[i] = c

isalpha(c) == c \in Range(Lower) \cup Range(Upper)
isdigit(c) == c \in Range(Digit)
isalnum(c) == isalpha(c) \/ isdigit(c)

\* The character code (ASCII) of a character.
Ord(c) ==
  IF c \in Range(Lower) THEN 96 + IndexOf(Lower, c)
  ELSE IF c \in Range(Upper) THEN 64 + IndexOf(Upper, c)
  ELSE IF c \in Range(Digit) THEN 47 + IndexOf(Digit, c)
  ELSE CASE c = "_" -> 95
         [] c = "(" -> 40
         [] c = ")" -> 41
         [] c = "." -> 46
         [] c = "-" -> 45
         [] c = "+" -> 43
         [] OTHER   -> 63

\* strstr(s, t): the first index (from 1) at which t occurs in s, 0 if none.
strstr(s, t) ==
  LET hits == {i \in 1..(Len(s) - Len(t) + 1) : SubSeq(s, i, i + Len(t) - 1) = t}
  IN IF hits = {} THEN 0 ELSE CHOOSE i \in hits : \A j \in hits : i <= j

log10_open == <<"l","o","g","1","0","(">>

----------------------------------------------------------------------------
(* khash tables with string keys                                           *)

Pow2(n) == 2^n

\* The bucket of a key is taken from the low bits of its 32-bit hash; the
\* tables of the model have far fewer than 2^16 buckets, and the low 16 bits
\* of the hash are computed from the low 16 bits alone.
KhintLowBits == 16

RECURSIVE X31From(_, _, _)
X31From(s, i, h) ==
  IF i > Len(s) THEN h
  ELSE X31From(s, i + 1, (h * 31 + Ord(s[i])) % Pow2(KhintLowBits))

\* __ac_X31_hash_string: h = s[0]; then h = (h << 5) - h + c for the other characters.
kh_str_hash_func(s) == IF Len(s) = 0 THEN 0 ELSE X31From(s, 2, Ord(s[1]))

\* The number of buckets of a table into which k keys were put and none deleted:
\* the table starts with 4 buckets and doubles when it is 77% full.
RECURSIVE BucketsFrom(_, _)
BucketsFrom(k, nb) ==
  IF k <= (nb * 77 + 50) \div 100 THEN nb ELSE BucketsFrom(k, 2 * nb)

kh_n_buckets(k) == IF k = 0 THEN 0 ELSE BucketsFrom(k, 4)

kh_bucket(key, nkeys) == kh_str_hash_func(key) % kh_n_buckets(nkeys)

\* The sequence of the elements of keys in increasing order of bucket.
RECURSIVE SortByBucket(_, _)
SortByBucket(keys, nkeys) ==
  IF keys = {} THEN <<>>
  ELSE LET first == CHOOSE k \in keys :
                      \A o \in keys : kh_bucket(k, nkeys) <= kh_bucket(o, nkeys)
       IN <<first>> \o SortByBucket(keys \ {first}, nkeys)

\* kh_begin .. kh_end over a table: the keys in the order of iteration.
kh_order(table) == SortByBucket(DOMAIN table, Cardinality(DOMAIN table))

\* The keys of the tables of one file never share a bucket, so that the order
\* does not depend on how collisions are resolved.
NoCollision(keys) ==
  \A k1, k2 \in keys :
    k1 # k2 => kh_bucket(k1, Cardinality(keys)) # kh_bucket(k2, Cardinality(keys))

EmptyTable == <<>>

kh_put(table, key, value) == (key :> value) @@ table

----------------------------------------------------------------------------
(* Error codes (sw_error_code_t of skywalker.h) and messages               *)

SW_SUCCESS == "SW_SUCCESS"
SW_YAML_FILE_NOT_FOUND == "SW_YAML_FILE_NOT_FOUND"
SW_INVALID_YAML == "SW_INVALID_YAML"
SW_INVALID_SETTINGS_BLOCK == "SW_INVALID_SETTINGS_BLOCK"
SW_SETTINGS_NOT_FOUND == "SW_SETTINGS_NOT_FOUND"
SW_INVALID_PARAM_TYPE == "SW_INVALID_PARAM_TYPE"
SW_INVALID_PARAM_NAME == "SW_INVALID_PARAM_NAME"
SW_INVALID_PARAM_VALUE == "SW_INVALID_PARAM_VALUE"
SW_TOO_MANY_LATTICE_PARAMS == "SW_TOO_MANY_LATTICE_PARAMS"
SW_INVALID_ENUMERATION == "SW_INVALID_ENUMERATION"
SW_EMPTY_ENSEMBLE == "SW_EMPTY_ENSEMBLE"
SW_ENSEMBLE_TOO_LARGE == "SW_ENSEMBLE_TOO_LARGE"
SW_PARAM_NOT_FOUND == "SW_PARAM_NOT_FOUND"
SW_WRITE_FAILURE == "SW_WRITE_FAILURE"

\* A message is the format string of the new_string call that made it;
\* NoMessage is the null error_message.
NoMessage == "NULL"

----------------------------------------------------------------------------
(* YAML events (yaml_event_t as delivered by yaml_parser_parse)            *)

YAML_STREAM_START_EVENT == "YAML_STREAM_START_EVENT"
YAML_STREAM_END_EVENT == "YAML_STREAM_END_EVENT"
YAML_DOCUMENT_START_EVENT == "YAML_DOCUMENT_START_EVENT"
YAML_DOCUMENT_END_EVENT == "YAML_DOCUMENT_END_EVENT"
YAML_MAPPING_START_EVENT == "YAML_MAPPING_START_EVENT"
YAML_MAPPING_END_EVENT == "YAML_MAPPING_END_EVENT"
YAML_SEQUENCE_START_EVENT == "YAML_SEQUENCE_START_EVENT"
YAML_SEQUENCE_END_EVENT == "YAML_SEQUENCE_END_EVENT"
YAML_SCALAR_EVENT == "YAML_SCALAR_EVENT"
\* yaml_parser_parse fails at this point of the file (parser.error is set).
YAML_PARSER_ERROR == "YAML_PARSER_ERROR"

Ev(t) == [type |-> t, value |-> <<>>]
Scalar(v) == [type |-> YAML_SCALAR_EVENT, value |-> v]

----------------------------------------------------------------------------
(* strtod on the tokens of the model: an optional sign and decimal digits. *)
(* ok is FALSE when nothing was converted (endp == value).                 *)

RECURSIVE DigitsFrom(_, _, _)
DigitsFrom(s, i, acc) ==
  IF i <= Len(s) /\ isdigit(s[i])
    THEN DigitsFrom(s, i + 1, [n |-> acc.n + 1, v |-> acc.v * 10 + (Ord(s[i]) - 48)])
    ELSE acc

strtod(s) ==
  LET signed == Len(s) > 0 /\ s[1] \in {"-", "+"}
      start  == IF signed THEN 2 ELSE 1
      d      == DigitsFrom(s, start, [n |-> 0, v |-> 0])
  IN [ok |-> d.n > 0,
      value |-> IF signed /\ s[1] = "-" THEN 0 - d.v ELSE d.v]

----------------------------------------------------------------------------
(* The data parsed from a file (yaml_data_t) and the parser state          *)
(* (parser_state_t)                                                        *)

NoSettings == [null |-> TRUE, params |-> EmptyTable]
sw_settings_new == [null |-> FALSE, params |-> EmptyTable]

InitData ==
  [settings |-> NoSettings,
   fixed_input |-> EmptyTable, lattice_input |-> EmptyTable,
   enumerated_input |-> EmptyTable,
   fixed_array_input |-> EmptyTable, lattice_array_input |-> EmptyTable,
   enumerated_array_input |-> EmptyTable,
   setting_names |-> {}, param_names |-> {},
   num_enumerated_inputs |-> 0,
   error_code |-> SW_SUCCESS, error_message |-> NoMessage]

InitState(settings_block) ==
  [settings_block |-> settings_block,
   parsing_settings |-> FALSE, current_setting |-> NULL,
   parsing_input |-> FALSE, parsing_fixed_params |-> FALSE,
   parsing_lattice_params |-> FALSE, parsing_enumerated_params |-> FALSE,
   parsing_input_sequence |-> FALSE, parsing_input_array_sequence |-> FALSE,
   current_param |-> NULL]

SetError(data, code, message) ==
  [data EXCEPT !.error_code = code, !.error_message = message]

\* What a step of the loader leaves: the parser state, the data, and fault,
\* which is "none" unless the process died in the step: "aborted" by a failed
\* assert, "crashed" by a null pointer dereference.
Step(state, data) == [state |-> state, data |-> data, fault |-> "none"]
Fault(state, data, f) == [state |-> state, data |-> data, fault |-> f]

\* kh_get with a null key: the hash function reads the key unless the table
\* has no buckets.
NullKeyFaults(table) == DOMAIN table # {}

\* is_valid_input_name
RECURSIVE ValidFrom(_, _, _, _)
ValidFrom(name, i, is_array_value, log10_opened) ==
  IF i > Len(name) THEN TRUE
  ELSE IF isalnum(name[i]) \/ name[i] = "_"
    THEN ValidFrom(name, i + 1, is_array_value, log10_opened)
  ELSE IF is_array_value THEN FALSE
  ELSE IF ~log10_opened /\ name[i] = "("
    THEN LET log10 == strstr(name, log10_open)
         IN IF log10 # 0 /\ log10 - 1 < i - 1
              THEN ValidFrom(name, i + 1, is_array_value, TRUE)
              ELSE FALSE
  ELSE IF ~(log10_opened /\ name[i] = ")") THEN FALSE
  ELSE ValidFrom(name, i + 1, is_array_value, log10_opened)

is_valid_input_name(name, is_array_value) ==
  IF Len(name) = 0 \/ (~isalpha(name[1]) /\ name[1] # "_") THEN FALSE
  ELSE ValidFrom(name, 2, is_array_value, FALSE)

----------------------------------------------------------------------------
(* handle_yaml_event                                                       *)

input_keyword == <<"i","n","p","u","t">>
fixed_keyword == <<"f","i","x","e","d">>
lattice_keyword == <<"l","a","t","t","i","c","e">>
enumerated_keyword == <<"e","n","u","m","e","r","a","t","e","d">>

Last(s) == s[Len(s)]
AppendToLast(arrays, v) == [arrays EXCEPT ![Len(arrays)] = Append(@, v)]

\* A scalar event that is the name of a setting or the value of a setting.
\* A settings handler that does not look the key up in the keys seen.
HandleSettingScalar_unchecked(value, state, data) ==
  IF state.current_setting = NULL
    THEN Step([state EXCEPT !.current_setting = value],
              [data EXCEPT !.setting_names = @ \cup {value}])
    ELSE IF state.current_setting \in DOMAIN data.settings.params
           THEN Fault(state, data, "aborted")
           ELSE Step([state EXCEPT !.current_setting = NULL],
                     [data EXCEPT !.settings.params =
                        kh_put(@, state.current_setting, value)])

HandleSettingScalar(value, state, data) ==
  IF state.current_setting = NULL
    THEN IF value \in data.setting_names
           THEN Step(state, SetError(data, SW_INVALID_SETTINGS_BLOCK,
                                     "Setting %s appears more than once!"))
           ELSE Step([state EXCEPT !.current_setting = value],
                     [data EXCEPT !.setting_names = @ \cup {value}])
    ELSE \* sw_settings_set, which asserts that the name is new in the table
         IF state.current_setting \in DOMAIN data.settings.params
           THEN Fault(state, data, "aborted")
           ELSE Step([state EXCEPT !.current_setting = NULL],
                     [data EXCEPT !.settings.params =
                        kh_put(@, state.current_setting, value)])

\* The scalar handler of the input block without its test of the group key.
HandleGroupScalar_any_key(value, state, data) ==
  IF value = fixed_keyword
    THEN Step([state EXCEPT !.parsing_fixed_params = TRUE], data)
  ELSE IF value = lattice_keyword
    THEN Step([state EXCEPT !.parsing_lattice_params = TRUE], data)
  ELSE IF value = enumerated_keyword
    THEN Step([state EXCEPT !.parsing_enumerated_params = TRUE], data)
  ELSE Step(state, data)

\* A scalar event that is a sub-key of input.
HandleGroupScalar(value, state, data) ==
  IF value = fixed_keyword
    THEN Step([state EXCEPT !.parsing_fixed_params = TRUE], data)
  ELSE IF value = lattice_keyword
    THEN Step([state EXCEPT !.parsing_lattice_params = TRUE], data)
  ELSE IF value = enumerated_keyword
    THEN Step([state EXCEPT !.parsing_enumerated_params = TRUE], data)
  ELSE Step(state, SetError(data, SW_INVALID_PARAM_TYPE,
                            "Invalid parameter type: %s"))

\* A scalar event that is the name of a parameter.
\* A name handler that does not look the name up in the names seen.
HandleParamName_unchecked(value, state, data) ==
  IF ~is_valid_input_name(value, state.parsing_input_array_sequence)
    THEN Step(state, SetError(data, SW_INVALID_PARAM_NAME,
                              "Invalid input parameter name: %s"))
  ELSE Step([state EXCEPT !.current_param = value],
            [data EXCEPT !.param_names = @ \cup {value}])

HandleParamName(value, state, data) ==
  IF value \in data.param_names
    THEN Step(state, SetError(data, SW_INVALID_PARAM_NAME,
                              "Input parameter %s appears more than once!"))
  ELSE IF ~is_valid_input_name(value, state.parsing_input_array_sequence)
    THEN Step(state, SetError(data, SW_INVALID_PARAM_NAME,
                              "Invalid input parameter name: %s"))
  ELSE Step([state EXCEPT !.current_param = value],
            [data EXCEPT !.param_names = @ \cup {value}])

\* The field of yaml_data_t that holds the array values of the active group.
ArrayField(state) ==
  IF state.parsing_fixed_params THEN "fixed_array_input"
  ELSE IF state.parsing_lattice_params THEN "lattice_array_input"
  ELSE "enumerated_array_input"

\* The field of yaml_data_t that holds the scalar values of the active group.
ScalarField(state) ==
  IF state.parsing_fixed_params THEN "fixed_input"
  ELSE IF state.parsing_lattice_params THEN "lattice_input"
  ELSE "enumerated_input"

NoGroup(state) ==
  ~state.parsing_fixed_params /\ ~state.parsing_lattice_params
    /\ ~state.parsing_enumerated_params

\* A scalar event that is a value of the current parameter.
HandleParamValue(value, state, data) ==
  LET real == strtod(value)
      cleared == IF ~state.parsing_input_sequence
                   THEN [state EXCEPT !.current_param = NULL] ELSE state
      name == state.current_param
  IN IF ~real.ok
       THEN Step(state, SetError(data, SW_INVALID_PARAM_VALUE,
                   "Invalid input value for fixed parameter %s: %s"))
     ELSE IF NoGroup(state) THEN Fault(state, data, "aborted")
     ELSE IF (state.parsing_input_sequence /\ state.parsing_fixed_params)
              \/ state.parsing_input_array_sequence
       THEN LET f == ArrayField(state)
                arrays == IF name \in DOMAIN data[f] THEN data[f][name]
                          ELSE << <<>> >>
            IN Step(cleared,
                    [data EXCEPT ![f] = kh_put(@, name, AppendToLast(arrays, real.value))])
     ELSE LET f == ScalarField(state)
              values == IF name \in DOMAIN data[f] THEN data[f][name] ELSE <<>>
          IN Step(cleared,
                  [data EXCEPT ![f] = kh_put(@, name, Append(values, real.value))])

HandleScalar(value, state, data) ==
  IF ~state.parsing_settings /\ state.settings_block # NULL
       /\ state.settings_block # <<>> /\ value = state.settings_block
    THEN IF state.current_setting # NULL THEN Fault(state, data, "aborted")
         ELSE Step([state EXCEPT !.parsing_settings = TRUE],
                   [data EXCEPT !.settings = sw_settings_new])
  ELSE IF state.parsing_settings THEN HandleSettingScalar(value, state, data)
  ELSE IF ~state.parsing_input /\ value = input_keyword
    THEN Step([state EXCEPT !.parsing_input = TRUE], data)
  ELSE IF state.parsing_input
    THEN IF NoGroup(state) THEN HandleGroupScalar(value, state, data)
         ELSE IF state.current_param = NULL THEN HandleParamName(value, state, data)
         ELSE HandleParamValue(value, state, data)
  ELSE Step(state, data)

HandleMappingStart(state, data) ==
  IF state.current_param # NULL
    THEN Step(state, SetError(data, SW_INVALID_PARAM_VALUE,
                              "Mapping encountered in input parameter %s"))
    ELSE Step(state, data)

HandleMappingEnd(state, data) ==
  Step([state EXCEPT !.parsing_fixed_params = FALSE,
                     !.parsing_lattice_params = FALSE,
                     !.parsing_enumerated_params = FALSE,
                     !.parsing_settings = FALSE], data)

HandleSequenceStart(state, data) ==
  IF state.parsing_input_array_sequence
    THEN Step(state, SetError(data, SW_INVALID_PARAM_VALUE,
           "Cannot parse a sequence of array sequences for input parameter %s"))
  ELSE IF state.parsing_input_sequence
    THEN IF state.parsing_fixed_params
           THEN Step(state, SetError(data, SW_INVALID_PARAM_VALUE,
                  "Cannot parse a sequence of arrays for fixed input parameter %s"))
         ELSE IF NoGroup(state) THEN Fault(state, data, "aborted")
         ELSE LET f == ArrayField(state)
                  name == state.current_param
                  opened == [state EXCEPT !.parsing_input_array_sequence = TRUE]
              IN IF name = NULL
                   THEN IF NullKeyFaults(data[f]) THEN Fault(state, data, "crashed")
                        ELSE Step(opened, data)
                 ELSE IF name \in DOMAIN data[f]
                   THEN Step(opened, [data EXCEPT ![f][name] = Append(@, <<>>)])
                 ELSE Step(opened, data)
  ELSE IF state.parsing_input
    THEN Step([state EXCEPT !.parsing_input_sequence = TRUE], data)
  ELSE Step(state, data)

HandleSequenceEnd(state, data) ==
  LET closed == [state EXCEPT !.parsing_input_sequence = FALSE,
                              !.current_param = NULL]
      name == state.current_param
      input == IF state.parsing_lattice_params
                 THEN data.lattice_input ELSE data.enumerated_input
      array_input == IF state.parsing_lattice_params
                       THEN data.lattice_array_input
                       ELSE data.enumerated_array_input
      found == name # NULL /\ name \in DOMAIN input
      array_found == name # NULL /\ name \in DOMAIN array_input
      num_values == IF found THEN Len(input[name])
                    ELSE IF array_found THEN Len(array_input[name]) ELSE 0
  IN IF state.parsing_input_array_sequence
       THEN Step([state EXCEPT !.parsing_input_array_sequence = FALSE], data)
     ELSE IF state.parsing_fixed_params THEN Step(closed, data)
     ELSE IF name = NULL /\ (NullKeyFaults(input) \/ NullKeyFaults(array_input))
       THEN Fault(state, data, "crashed")
     ELSE IF num_values = 1
       THEN Step(state, SetError(data, SW_INVALID_PARAM_VALUE,
              "Lattice or enumerated parameter %s has only a single value."))
     ELSE IF ~found /\ ~array_found
       THEN Step(closed, SetError(data, SW_EMPTY_ENSEMBLE,
              "Lattice or enumerated parameter %s has no values. Generated ensemble is empty!"))
     ELSE Step(closed, data)

handle_yaml_event(event, state, data) ==
  IF event.type = YAML_SCALAR_EVENT THEN HandleScalar(event.value, state, data)
  ELSE IF event.type = YAML_MAPPING_START_EVENT THEN HandleMappingStart(state, data)
  ELSE IF event.type = YAML_MAPPING_END_EVENT THEN HandleMappingEnd(state, data)
  ELSE IF event.type = YAML_SEQUENCE_START_EVENT THEN HandleSequenceStart(state, data)
  ELSE IF event.type = YAML_SEQUENCE_END_EVENT THEN HandleSequenceEnd(state, data)
  ELSE Step(state, data)

----------------------------------------------------------------------------
(* The postprocessor                                                       *)

\* ceil(a / b) for a >= 0 and b > 0
Ceil(a, b) == (a + b - 1) \div b

\* The guard of the 3-element range shorthand for scalar parameters.
RangeGuard(v1, v2, v3) ==
  (v1 < v2) /\ (((0 < v3) /\ (v3 < v2))
                \/ ((v2 < 0) /\ ((0 < v3) /\ (2 * v3 < v2 - v1))))

RangeSize(v1, v2, v3) == Ceil(v2 - v1, v3) + 1

ExpandValues(values) ==
  IF Len(values) = 3 /\ RangeGuard(values[1], values[2], values[3])
    THEN [i \in 1..RangeSize(values[1], values[2], values[3]) |->
            values[1] + (i - 1) * values[3]]
    ELSE values

HasLog10Prefix(param_name) == strstr(param_name, log10_open) = 1

\* The second loop of postprocess_params over the names from position i of
\* order: the renamed table, or the error, or the failed assertion.
RECURSIVE RenameFrom(_, _, _, _)
RenameFrom(params, order, i, renamed_input) ==
  IF i > Len(order) THEN [params |-> renamed_input, error |-> FALSE, fault |-> "none"]
  ELSE LET param_name == order[i]
           values == params[param_name]
           is_log10 == HasLog10Prefix(param_name)
           new_param_name == IF is_log10
                               THEN SubSeq(param_name, 7, Len(param_name) - 1)
                               ELSE param_name
           new_values == IF is_log10
                           THEN [k \in DOMAIN values |-> 10^(values[k])]
                           ELSE values
       IN IF is_log10 /\ Last(param_name) # ")"
            THEN [params |-> params, error |-> TRUE, fault |-> "none"]
          ELSE IF new_param_name \in DOMAIN renamed_input
            THEN [params |-> params, error |-> FALSE, fault |-> "aborted"]
          ELSE RenameFrom(params, order, i + 1,
                          kh_put(renamed_input, new_param_name, new_values))

\* A postprocessor that takes the lists as written, without the expansion
\* of the ranges.
postprocess_params_unexpanded(params) ==
  RenameFrom(params, kh_order(params), 1, EmptyTable)
postprocess_params(params) ==
  LET expanded == [name \in DOMAIN params |-> ExpandValues(params[name])]
  IN RenameFrom(expanded, kh_order(expanded), 1, EmptyTable)

IntMax == 2147483647

\* The loop of postprocess_array_params over the array positions from l.
RECURSIVE ArraySizeFrom(_, _, _, _, _, _)
ArraySizeFrom(array_val0, array_val1, array_val2, len, l, sz) ==
  IF l > len THEN sz
  ELSE LET val0 == array_val0[l]
           val1 == array_val1[l]
           val2 == array_val2[l]
           s == Ceil(val1 - val0, val2) + 1
           next == IF val2 > 0
                     THEN IF (val0 < val1) /\ (val2 < val1)
                            THEN IF s < sz \/ IntMax = sz THEN s ELSE sz
                            ELSE 0
                     ELSE sz
       IN ArraySizeFrom(array_val0, array_val1, array_val2, len, l + 1, next)

ExpandArrayValues(array_values) ==
  IF Len(array_values) # 3 THEN array_values
  ELSE LET array_val0 == array_values[1]
           array_val1 == array_values[2]
           array_val2 == array_values[3]
           len == IF Len(array_val0) # Len(array_val1) \/
                     Len(array_val0) # Len(array_val2)
                    THEN 0 ELSE Len(array_val0)
           sz == ArraySizeFrom(array_val0, array_val1, array_val2, len, 1, IntMax)
       IN IF sz > 0 /\ sz # IntMax
            THEN [i \in 1..sz |->
                    [l \in 1..len |-> array_val0[l] + (i - 1) * array_val2[l]]]
            ELSE array_values

postprocess_array_params(params) ==
  [name \in DOMAIN params |-> ExpandArrayValues(params[name])]

\* The lengths of the candidate lists in the order validate_enumerated_params
\* meets them: scalar-valued names first, then array-valued names.
\* The lengths of the scalar candidate lists alone.
EnumLengths_scalars(params, array_params) ==
  LET o1 == kh_order(params)
  IN [i \in 1..Len(o1) |-> Len(params[o1[i]])]

EnumLengths(params, array_params) ==
  LET o1 == kh_order(params)
      o2 == kh_order(array_params)
  IN [i \in 1..Len(o1) |-> Len(params[o1[i]])]
       \o [i \in 1..Len(o2) |-> Len(array_params[o2[i]])]

\* The check of validate_enumerated_params on the lengths lens of the
\* enumerated candidate lists; the first is the number of enumerated inputs.
ValidateLengths(sized, lens, num_inputs) ==
  IF \E i \in DOMAIN lens : lens[i] # num_inputs
    THEN SetError(sized, SW_INVALID_ENUMERATION,
           "Invalid enumeration: Parameter %s has a different number of values (%ld) than %s (%ld)")
    ELSE sized

ValidateFrom(data, lens, num_inputs) ==
  ValidateLengths([data EXCEPT !.num_enumerated_inputs = num_inputs],
                  lens, num_inputs)

FirstLength(lens) == IF Len(lens) = 0 THEN 0 ELSE lens[1]

ValidateWith(data, lens) == ValidateFrom(data, lens, FirstLength(lens))

validate_enumerated_params(data) ==
  ValidateWith(data,
               EnumLengths(data.enumerated_input, data.enumerated_array_input))

----------------------------------------------------------------------------
(* parse_yaml                                                              *)

\* One iteration of the do-while loop of parse_yaml: yaml_parser_parse,
\* then handle_yaml_event; h is how the iteration before it left the parser.
ParseEvent(event, h) ==
  IF event.type = YAML_PARSER_ERROR
    THEN Step(h.state, SetError(h.data, SW_INVALID_YAML, "parser.problem"))
    ELSE handle_yaml_event(event, h.state, h.data)

\* The loop ends on a fault, an error, or the end of the stream.
LoopEnds(event, h) ==
  \/ h.fault # "none"
  \/ h.data.error_code # SW_SUCCESS
  \/ event.type = YAML_STREAM_END_EVENT

RECURSIVE ParseEvents(_, _, _, _)

\* The iterations for events mid + 1 .. hi, unless the loop ended at mid.
ParseRest(events, mid, hi, h) ==
  IF LoopEnds(events[mid], h) THEN h ELSE ParseEvents(events, mid + 1, hi, h)

\* The iterations of the do-while loop of parse_yaml for events lo .. hi in
\* order, by halves.
ParseEvents(events, lo, hi, h) ==
  IF lo = hi THEN ParseEvent(events[lo], h)
  ELSE ParseRest(events, (lo + hi) \div 2, hi,
                 ParseEvents(events, lo, (lo + hi) \div 2, h))

Unclosed == "Unclosed parens in parameter %s."

\* validate_enumerated_params is called whatever came before it.
PostValidate(data) ==
  [data |-> validate_enumerated_params(data), fault |-> "none"]

\* The part of parse_yaml after postprocess_params on the enumerated
\* parameters, which gave pe.  On its error the table is left with the
\* lists that its first loop expanded in place.
PostEnumerated(data, pe) ==
  IF pe.fault # "none" THEN [data |-> data, fault |-> pe.fault]
  ELSE IF pe.error
    THEN PostValidate(SetError([data EXCEPT !.enumerated_input = pe.params],
                               SW_INVALID_PARAM_NAME, Unclosed))
  ELSE PostValidate(
         [data EXCEPT
            !.enumerated_input = pe.params,
            !.lattice_array_input = postprocess_array_params(@),
            !.enumerated_array_input = postprocess_array_params(@)])

\* The same with the range expansion applied to the arrays of the fixed
\* parameters as well.
PostLatticeDone_fixed_expanded(data) ==
  PostEnumerated(
    [data EXCEPT !.fixed_array_input =
       [name \in DOMAIN @ |-> [k \in DOMAIN @[name] |-> ExpandValues(@[name][k])]]],
    postprocess_params(data.enumerated_input))

PostLatticeDone(data) ==
  PostEnumerated(data, postprocess_params(data.enumerated_input))

\* The part of parse_yaml after postprocess_params on the lattice
\* parameters, which gave pl.
PostLattice(data, pl) ==
  IF pl.fault # "none" THEN [data |-> data, fault |-> pl.fault]
  ELSE IF pl.error
    THEN PostValidate(SetError([data EXCEPT !.lattice_input = pl.params],
                               SW_INVALID_PARAM_NAME, Unclosed))
  ELSE PostLatticeDone([data EXCEPT !.lattice_input = pl.params])

\* The part of parse_yaml after the loop without the check that the
\* settings block was found.
Postprocess_unchecked(settings_block, data) ==
  PostLattice(data, postprocess_params(data.lattice_input))

\* The part of parse_yaml after the loop: the data, and how the process
\* stands (fault).
Postprocess(settings_block, data) ==
  IF settings_block # NULL /\ settings_block # <<>> /\ data.settings.null
    THEN [data |-> SetError(data, SW_SETTINGS_NOT_FOUND,
                            "The settings block '%s' was not found."),
          fault |-> "none"]
  ELSE PostLattice(data, postprocess_params(data.lattice_input))

ParseDone(settings_block, p) ==
  IF p.fault # "none" THEN [data |-> p.data, fault |-> p.fault]
  ELSE IF p.data.error_code # SW_SUCCESS THEN [data |-> p.data, fault |-> "none"]
  ELSE Postprocess(settings_block, p.data)

parse_yaml(events, settings_block) ==
  ParseDone(settings_block,
            ParseEvents(events, 1, Len(events),
                        Step(InitState(settings_block), InitData)))

----------------------------------------------------------------------------
(* Ensemble construction                                                   *)

\* size_t is an unsigned integer of SizeWidth bits.
SizeWidth == 16
SizeMod(n) == n % Pow2(SizeWidth)

\* sizeof(sw_input_t): two pointers.
SizeofInput == 2 * (SizeWidth \div 8)

\* malloc fails for a request of more than PTRDIFF_MAX bytes.
MallocFails(count) == SizeMod(SizeofInput * count) > Pow2(SizeWidth - 1) - 1

\* An sw_input_t under construction: its two tables, and fault, which
\* becomes "aborted" when a name is set that the record already holds
\* (assert(ret == 1) in sw_input_set and sw_input_set_array).
NewInput == [params |-> EmptyTable, array_params |-> EmptyTable, fault |-> "none"]

sw_input_set(input, name, value) ==
  IF input.fault # "none" THEN input
  ELSE IF name \in DOMAIN input.params THEN [input EXCEPT !.fault = "aborted"]
  ELSE [input EXCEPT !.params = kh_put(@, name, value)]

sw_input_set_array(input, name, values) ==
  IF input.fault # "none" THEN input
  ELSE IF name \in DOMAIN input.array_params THEN [input EXCEPT !.fault = "aborted"]
  ELSE [input EXCEPT !.array_params = kh_put(@, name, values)]

\* kh_foreach over table from position i of order, setting each name to the
\* element of its values at index.
RECURSIVE SetScalarsFrom(_, _, _, _, _)
SetScalarsFrom(input, table, order, i, index) ==
  IF i > Len(order) THEN input
  ELSE SetScalarsFrom(sw_input_set(input, order[i], table[order[i]][index]),
                      table, order, i + 1, index)

RECURSIVE SetArraysFrom(_, _, _, _, _)
SetArraysFrom(input, table, order, i, index) ==
  IF i > Len(order) THEN input
  ELSE SetArraysFrom(sw_input_set_array(input, order[i], table[order[i]][index]),
                     table, order, i + 1, index)

IsSingle(values) == Len(values) = 1
IsVarying(values) == Len(values) > 1

\* The names of order whose values in table are varying (more than one) or
\* not (exactly one), in the same order.
SelectNames(order, table, varying) ==
  LET F[i \in 0..Len(order)] ==
        IF i = 0 THEN <<>>
        ELSE IF (varying /\ IsVarying(table[order[i]]))
                  \/ (~varying /\ IsSingle(table[order[i]]))
          THEN Append(F[i - 1], order[i])
          ELSE F[i - 1]
  IN F[Len(order)]

assign_fixed_params(yaml_data, input) ==
  SetScalarsFrom(input, yaml_data.fixed_input,
                 SelectNames(kh_order(yaml_data.fixed_input),
                            yaml_data.fixed_input, FALSE), 1, 1)

assign_fixed_array_params(yaml_data, input) ==
  SetArraysFrom(input, yaml_data.fixed_array_input,
                SelectNames(kh_order(yaml_data.fixed_array_input),
                           yaml_data.fixed_array_input, FALSE), 1, 1)

\* The traversed dimensions that assign_lattice_params collects: the scalar
\* names with more than one value in the order of their table, then the
\* array names with more than one value in the order of theirs, m at most.
\* Each dimension is <<is_array, name>>.
Dims(names, array_names) ==
  [i \in 1..Len(names) |-> <<FALSE, names[i]>>]
    \o [i \in 1..Len(array_names) |-> <<TRUE, array_names[i]>>]

Take(all, m) == IF Len(all) > m THEN SubSeq(all, 1, m) ELSE all

LatticeDims(yaml_data, m) ==
  Take(Dims(SelectNames(kh_order(yaml_data.lattice_input),
                        yaml_data.lattice_input, TRUE),
            SelectNames(kh_order(yaml_data.lattice_array_input),
                        yaml_data.lattice_array_input, TRUE)),
       m)

DimValues(yaml_data, dim) ==
  IF dim[1] THEN yaml_data.lattice_array_input[dim[2]]
  ELSE yaml_data.lattice_input[dim[2]]

\* Indices that are taken from the first dimension to the last.
RECURSIVE LatticeIndices_first_fastest(_, _)
LatticeIndices_first_fastest(n, L) ==
  IF Len(n) = 0 THEN <<>>
  ELSE IF Len(n) = 1 THEN <<L>>
  ELSE <<L % Head(n)>> \o LatticeIndices_first_fastest(Tail(n), L \div Head(n))

\* j[i] of assign_lattice_params for the dimensions d (with sizes n) that are
\* left, from the last to the second: j = L % n[i], L /= n[i]; j[0] = L.
RECURSIVE LatticeIndices(_, _)
LatticeIndices(n, L) ==
  IF Len(n) = 0 THEN <<>>
  ELSE IF Len(n) = 1 THEN <<L>>
  ELSE Append(LatticeIndices(SubSeq(n, 1, Len(n) - 1), L \div Last(n)),
              L % Last(n))

RECURSIVE SetDimsFrom(_, _, _, _, _)
SetDimsFrom(input, yaml_data, dims, j, i) ==
  IF i > Len(dims) THEN input
  ELSE LET v == DimValues(yaml_data, dims[i])[j[i] + 1]
           set == IF dims[i][1] THEN sw_input_set_array(input, dims[i][2], v)
                  ELSE sw_input_set(input, dims[i][2], v)
       IN SetDimsFrom(set, yaml_data, dims, j, i + 1)

\* n[i] of assign_lattice_params: the number of values of dimension i.
DimSizes(yaml_data, dims) ==
  [i \in 1..Len(dims) |-> Len(DimValues(yaml_data, dims[i]))]

\* With fewer than m traversed names, the sizes and names of the missing
\* dimensions are read from uninitialized and null array elements, and the
\* process dies on the null name.
AssignDims(yaml_data, l, m, input, dims) ==
  IF input.fault # "none" THEN input
  ELSE IF m >= 8 THEN [input EXCEPT !.fault = "aborted"]
  ELSE IF Len(dims) < m THEN [input EXCEPT !.fault = "crashed"]
  ELSE SetDimsFrom(input, yaml_data, dims,
                   LatticeIndices(DimSizes(yaml_data, dims), l), 1)

assign_lattice_params(yaml_data, l, m, input) ==
  AssignDims(yaml_data, l, m, input, LatticeDims(yaml_data, m))

assign_enumerated_params(yaml_data, enum_index, input) ==
  SetArraysFrom(
    SetScalarsFrom(input, yaml_data.enumerated_input,
                   kh_order(yaml_data.enumerated_input), 1, enum_index + 1),
    yaml_data.enumerated_array_input,
    kh_order(yaml_data.enumerated_array_input), 1, enum_index + 1)

RECURSIVE SizeProduct(_, _, _)
SizeProduct(table, order, i) ==
  IF i > Len(order) THEN 1
  ELSE SizeMod(Len(table[order[i]]) * SizeProduct(table, order, i + 1))

Size(table) == Cardinality(DOMAIN table)

\* The number of entries of the lattice tables (num_lattice_params).
NumLatticeParams(yaml_data) ==
  Size(yaml_data.lattice_input) + Size(yaml_data.lattice_array_input)

NumEnumeratedParams(yaml_data) ==
  Size(yaml_data.enumerated_input) + Size(yaml_data.enumerated_array_input)

NumFixedParams(yaml_data) ==
  Size(yaml_data.fixed_input) + Size(yaml_data.fixed_array_input)

MaxLatticeParams == 7

\* A size that leaves the enumeration length out.
NumInputs_lattice_only(yaml_data) ==
  SizeMod(
    SizeProduct(yaml_data.lattice_input, kh_order(yaml_data.lattice_input), 1)
    * SizeProduct(yaml_data.lattice_array_input,
                  kh_order(yaml_data.lattice_array_input), 1))

\* result.num_inputs of build_ensemble
NumInputs(yaml_data) ==
  LET lattice == SizeMod(
        SizeProduct(yaml_data.lattice_input, kh_order(yaml_data.lattice_input), 1)
        * SizeProduct(yaml_data.lattice_array_input,
                      kh_order(yaml_data.lattice_array_input), 1))
  IN IF NumEnumeratedParams(yaml_data) > 0
       THEN SizeMod(lattice * yaml_data.num_enumerated_inputs)
       ELSE lattice

\* The fixed parameters of a record.
AssignFixed(yaml_data) ==
  assign_fixed_array_params(yaml_data, assign_fixed_params(yaml_data, NewInput))

\* The lattice parameters of record l, when there are any.
AssignLattice(yaml_data, lattice_index, num_lattice_params, input) ==
  IF num_lattice_params > 0
    THEN assign_lattice_params(yaml_data, lattice_index, num_lattice_params,
                               input)
    ELSE input

\* The enumerated parameters of record l, when there are any.
AssignEnumerated(yaml_data, enum_index, input) ==
  IF NumEnumeratedParams(yaml_data) > 0
    THEN assign_enumerated_params(yaml_data, enum_index, input)
    ELSE input

LatticeIndex(yaml_data, l) ==
  IF yaml_data.num_enumerated_inputs > 0
    THEN l \div yaml_data.num_enumerated_inputs
    ELSE l

\* l % num_enumerated_inputs, evaluated only with enumerated parameters.
EnumIndex(yaml_data, l) ==
  IF yaml_data.num_enumerated_inputs > 0
    THEN l % yaml_data.num_enumerated_inputs
    ELSE 0

\* A loop body in which the lattice index varies fastest.
BuildInput_lattice_fastest(yaml_data, l) ==
  AssignEnumerated(yaml_data, l \div NumInputs_lattice_only(yaml_data),
    AssignLattice(yaml_data, l % NumInputs_lattice_only(yaml_data),
                  NumLatticeParams(yaml_data), AssignFixed(yaml_data)))

\* The body of the loop of build_ensemble for record l.
BuildInput(yaml_data, l) ==
  AssignEnumerated(yaml_data, EnumIndex(yaml_data, l),
    AssignLattice(yaml_data, LatticeIndex(yaml_data, l),
                  NumLatticeParams(yaml_data), AssignFixed(yaml_data)))

InputOf(built) == [params |-> built.params, array_params |-> built.array_params]

NoBuild(code, message) ==
  [num_inputs |-> 0, inputs |-> <<>>, error_code |-> code,
   error_message |-> message, fault |-> "none"]

\* The records of the loop of build_ensemble, or the fault of the first
\* record in which the process dies.
Built(num_inputs, built, faults) ==
  IF faults # {}
    THEN [NoBuild(SW_SUCCESS, NoMessage) EXCEPT
            !.fault = built[CHOOSE l \in faults : \A k \in faults : l <= k].fault]
  ELSE [num_inputs |-> num_inputs,
        inputs |-> [l \in 1..num_inputs |-> InputOf(built[l])],
        error_code |-> SW_SUCCESS, error_message |-> NoMessage,
        fault |-> "none"]

FaultsOf(built) == {l \in DOMAIN built : built[l].fault # "none"}

BuildLoop(num_inputs, built) == Built(num_inputs, built, FaultsOf(built))

BuildFrom(yaml_data, num_inputs, num_lattice_params) ==
  IF NumFixedParams(yaml_data) + num_lattice_params
       + NumEnumeratedParams(yaml_data) = 0
    THEN NoBuild(SW_EMPTY_ENSEMBLE, "Ensemble has no members!")
  ELSE IF num_lattice_params > MaxLatticeParams
    THEN NoBuild(SW_TOO_MANY_LATTICE_PARAMS,
           "The given lattice ensemble has %d traversed parameters (must be <= 7).")
  ELSE IF MallocFails(num_inputs)
    THEN NoBuild(SW_ENSEMBLE_TOO_LARGE,
           "The given lattice ensemble (%zd members) is too large to fit into memory.")
  ELSE BuildLoop(num_inputs,
                 [l \in 1..num_inputs |-> BuildInput(yaml_data, l - 1)])

build_ensemble(yaml_data) ==
  BuildFrom(yaml_data, NumInputs(yaml_data), NumLatticeParams(yaml_data))

----------------------------------------------------------------------------
(* sw_load_ensemble                                                        *)

NoResult ==
  [error_code |-> SW_SUCCESS, error_message |-> NoMessage,
   ensemble |-> FALSE, settings |-> FALSE, returned |-> FALSE]

\* An error result that still carries a settings handle.
ErrorResult_with_settings(code, message) ==
  [error_code |-> code, error_message |-> message,
   ensemble |-> FALSE, settings |-> TRUE, returned |-> TRUE]

\* The sw_ensemble_result_t that reports an error: the two handles are null.
ErrorResult(code, message) ==
  [error_code |-> code, error_message |-> message,
   ensemble |-> FALSE, settings |-> FALSE, returned |-> TRUE]

\* What a call of sw_load_ensemble does: the result it returns, the ensemble
\* it allocates (when result.ensemble is non-null), the parsed data (freed
\* before returning), and fault when the process dies in the call.
Outcome(result_, fault, data, num_inputs, inputs_) ==
  [result |-> result_, fault |-> fault, data |-> data,
   num_inputs |-> num_inputs, inputs |-> inputs_]

\* The part of sw_load_ensemble that follows build_ensemble.
LoadBuilt(data, build_result) ==
  IF build_result.fault # "none"
    THEN Outcome(NoResult, build_result.fault, data, 0, <<>>)
  ELSE IF build_result.error_code # SW_SUCCESS
    THEN Outcome(ErrorResult(build_result.error_code, build_result.error_message),
                 "none", data, 0, <<>>)
  ELSE Outcome([error_code |-> SW_SUCCESS, error_message |-> NoMessage,
                ensemble |-> TRUE, settings |-> ~data.settings.null,
                returned |-> TRUE],
               "none", data, build_result.num_inputs, build_result.inputs)

\* The part of sw_load_ensemble that follows parse_yaml.
LoadParsed(parsed) ==
  IF parsed.fault # "none"
    THEN Outcome(NoResult, parsed.fault, parsed.data, 0, <<>>)
  ELSE IF parsed.data.error_code # SW_SUCCESS
    THEN Outcome(ErrorResult(parsed.data.error_code, parsed.data.error_message),
                 "none", parsed.data, 0, <<>>)
  ELSE LoadBuilt(parsed.data, build_ensemble(parsed.data))

\* A loader that opens the file before it looks at the settings block name.
LoadOutcome_open_first(file, settings_block) ==
  IF ~file.exists
    THEN Outcome(ErrorResult(SW_YAML_FILE_NOT_FOUND,
                   "The file '%s' could not be opened."),
                 "none", InitData, 0, <<>>)
  ELSE IF settings_block # NULL /\ settings_block = input_keyword
    THEN Outcome(ErrorResult(SW_INVALID_SETTINGS_BLOCK,
                   "Invalid settings block name: '%s' (cannot be 'input')"),
                 "none", InitData, 0, <<>>)
  ELSE LoadParsed(parse_yaml(file.events, settings_block))

LoadOutcome(file, settings_block) ==
  IF settings_block # NULL /\ settings_block = input_keyword
    THEN Outcome(ErrorResult(SW_INVALID_SETTINGS_BLOCK,
                   "Invalid settings block name: '%s' (cannot be 'input')"),
                 "none", InitData, 0, <<>>)
  ELSE IF ~file.exists
    THEN Outcome(ErrorResult(SW_YAML_FILE_NOT_FOUND,
                   "The file '%s' could not be opened."),
                 "none", InitData, 0, <<>>)
  ELSE LoadParsed(parse_yaml(file.events, settings_block))

NewOutput == [metrics |-> EmptyTable, array_metrics |-> EmptyTable]

----------------------------------------------------------------------------
(* Input files                                                             *)
(*                                                                         *)
(* A file is written as its declarations: the settings block (a sequence   *)
(* of <<key, value>>, under the key settings_key; absent when the key is   *)
(* NULL) and the fixed, lattice and enumerated groups of the input block,  *)
(* each a sequence of parameters in the order of the file. A parameter has *)
(* a name, candidates (each a sequence of numbers) and a shape that tells  *)
(* how it is written: "scalar" (name: 5), "seq" (name: [1, 2, 3]),         *)
(* "seqseq" (name: [[1, 2], [3, 4]]) or "mixed" (name: [1, 2, [3, 4]]),    *)
(* where nested tells which of the elements are written as arrays.         *)
(* YamlEvents gives the events that yaml_parser_parse delivers for the     *)
(* file.                                                                   *)

RECURSIVE NatTok(_)
NatTok(n) == IF n < 10 THEN <<Digit[n + 1]>>
             ELSE Append(NatTok(n \div 10), Digit[(n % 10) + 1])

\* The token that is written in the file for the number n.
Tok(n) == IF n < 0 THEN <<"-">> \o NatTok(0 - n) ELSE NatTok(n)

RECURSIVE Flatten(_)
Flatten(ss) == IF Len(ss) = 0 THEN <<>> ELSE Head(ss) \o Flatten(Tail(ss))

ScalarEvents(values) == [i \in DOMAIN values |-> Scalar(Tok(values[i]))]

ParamEvents(param) ==
  <<Scalar(param.name)>> \o
  (IF param.shape = "scalar" THEN ScalarEvents(param.cands[1])
   ELSE IF param.shape = "seq"
     THEN <<Ev(YAML_SEQUENCE_START_EVENT)>>
          \o Flatten([i \in DOMAIN param.cands |-> ScalarEvents(param.cands[i])])
          \o <<Ev(YAML_SEQUENCE_END_EVENT)>>
   ELSE IF param.shape = "mixed"
     THEN <<Ev(YAML_SEQUENCE_START_EVENT)>>
          \o Flatten([i \in DOMAIN param.cands |->
                       IF param.nested[i]
                         THEN <<Ev(YAML_SEQUENCE_START_EVENT)>>
                              \o ScalarEvents(param.cands[i])
                              \o <<Ev(YAML_SEQUENCE_END_EVENT)>>
                         ELSE ScalarEvents(param.cands[i])])
          \o <<Ev(YAML_SEQUENCE_END_EVENT)>>
   ELSE <<Ev(YAML_SEQUENCE_START_EVENT)>>
        \o Flatten([i \in DOMAIN param.cands |->
                     <<Ev(YAML_SEQUENCE_START_EVENT)>>
                     \o ScalarEvents(param.cands[i])
                     \o <<Ev(YAML_SEQUENCE_END_EVENT)>>])
        \o <<Ev(YAML_SEQUENCE_END_EVENT)>>)

MappingEvents(key, body) ==
  <<Scalar(key), Ev(YAML_MAPPING_START_EVENT)>> \o body
    \o <<Ev(YAML_MAPPING_END_EVENT)>>

GroupEvents(key, params) ==
  IF Len(params) = 0 THEN <<>>
  ELSE MappingEvents(key, Flatten([i \in DOMAIN params |-> ParamEvents(params[i])]))

SettingsEvents(decl) ==
  IF decl.settings_key = NULL THEN <<>>
  ELSE MappingEvents(decl.settings_key,
         Flatten([i \in DOMAIN decl.settings |->
                   <<Scalar(decl.settings[i][1]), Scalar(decl.settings[i][2])>>]))

YamlEvents(decl) ==
  <<Ev(YAML_STREAM_START_EVENT), Ev(YAML_DOCUMENT_START_EVENT),
    Ev(YAML_MAPPING_START_EVENT)>>
  \o SettingsEvents(decl)
  \o MappingEvents(input_keyword,
       GroupEvents(fixed_keyword, decl.fixed)
       \o GroupEvents(lattice_keyword, decl.lattice)
       \o GroupEvents(enumerated_keyword, decl.enumerated))
  \o <<Ev(YAML_MAPPING_END_EVENT), Ev(YAML_DOCUMENT_END_EVENT),
       Ev(YAML_STREAM_END_EVENT)>>

\* The file that fopen opens and that holds the declarations decl.
FileOf(decl) == [exists |-> TRUE, decl |-> decl, events |-> YamlEvents(decl)]

Param(name, shape, cands) == [name |-> name, shape |-> shape, cands |-> cands]
\* name: v
PScalar(name, v) == Param(name, "scalar", << <<v>> >>)
\* name: [v1, v2, ...]
PSeq(name, vs) == Param(name, "seq", [i \in DOMAIN vs |-> <<vs[i]>>])
\* name: [[...], [...], ...]
PSeqSeq(name, arrays) == Param(name, "seqseq", arrays)
\* name: [v1, [...], ...]: element i is the array cands[i] where nested[i],
\* the number cands[i][1] elsewhere.
PMixed(name, cands, nested) ==
  [name |-> name, shape |-> "mixed", cands |-> cands, nested |-> nested]

settings_name == <<"s","e","t","t","i","n","g","s">>

n_a == <<"a">>
n_b == <<"b">>
n_c == <<"c">>
n_e == <<"e">>
n_f == <<"f">>
n_g == <<"g">>
n_h == <<"h">>
n_p == <<"p">>
n_x == <<"x">>
n_y == <<"y">>
n_z == <<"z">>
n_log10_k == <<"l","o","g","1","0","(","k",")">>
n_k == <<"k">>
missing == <<"i","n","v","a","l","i","d","_","p","a","r","a","m">>
s1 == <<"s","1">>
primary == <<"p","r","i","m","a","r","y">>

Decl(settings_key, settings_, fixed, lattice, enumerated) ==
  [settings_key |-> settings_key, settings |-> settings_,
   fixed |-> fixed, lattice |-> lattice, enumerated |-> enumerated]

FixedPool ==
  << <<>>,
    <<PScalar(n_f, 1)>>,
    <<PScalar(n_f, 1), PSeq(n_g, <<0, 10, 2>>)>> >>

LatticePool ==
  << <<>>,
    <<PSeq(n_a, <<1, 2>>)>>,
    <<PSeq(n_a, <<1, 2>>), PSeq(n_b, <<10, 20, 30>>)>>,
    <<PSeq(n_b, <<10, 20, 30>>), PSeq(n_a, <<1, 2>>)>>,
    <<PSeq(n_b, <<0, 10, 5>>), PSeqSeq(n_c, << <<1, 2>>, <<3, 4>> >>)>>,
    <<PSeqSeq(n_c, << <<1, 2>>, <<3, 4>> >>), PSeq(n_a, <<1, 2>>)>>,
    <<PSeq(n_log10_k, <<0, 1, 2>>)>>,
    <<PScalar(n_p, 5)>>,
    <<PSeq(n_a, <<1, 2>>), PScalar(n_p, 5)>> >>

EnumeratedPool ==
  << <<>>,
    <<PSeq(n_x, <<1, 2, 3>>), PSeq(n_y, <<4, 5, 6>>)>>,
    <<PSeq(n_x, <<1, 2, 3>>), PSeq(n_y, <<4, 5>>)>>,
    <<PSeq(n_x, <<1, 2>>), PSeqSeq(n_z, << <<1>>, <<2>> >>)>>,
    <<PSeq(n_x, <<>>)>>,
    <<PScalar(n_e, 7)>> >>

SettingsPool == << <<NULL, <<>> >>, <<settings_name, << <<s1, primary>> >> >> >>

NumPoolDecls ==
  Len(SettingsPool) * Len(FixedPool) * Len(LatticePool) * Len(EnumeratedPool)

\* The declarations of the pools in every combination, numbered from 0.
PoolDecl(i) ==
  LET st == SettingsPool[(i % Len(SettingsPool)) + 1]
      i1 == i \div Len(SettingsPool)
      fx == FixedPool[(i1 % Len(FixedPool)) + 1]
      i2 == i1 \div Len(FixedPool)
      lt == LatticePool[(i2 % Len(LatticePool)) + 1]
      i3 == i2 \div Len(LatticePool)
      en == EnumeratedPool[(i3 % Len(EnumeratedPool)) + 1]
  IN Decl(st[1], st[2], fx, lt, en)

xs == [i \in 1..8 |-> <<"x", Digit[i + 1]>>]

\* n lattice names x1 .. xn with two values each, as in
\* test_too_many_lattice_params, followed by the lattice declarations more.
ManyLattice(n, more) ==
  Decl(settings_name, << <<n_a, <<"1">> >> >>, <<>>,
       [i \in 1..n |-> PSeq(xs[i], <<i, i + 1>>)] \o more, <<>>)

LatticeDecls ==
  << ManyLattice(8, <<>>),
    ManyLattice(7, <<>>),
    ManyLattice(7, <<PScalar(n_p, 5)>>),
    ManyLattice(6, <<PSeqSeq(n_c, << <<1, 2>>, <<3, 4>> >>)>>),
    ManyLattice(7, <<PSeqSeq(n_c, << <<1, 2>>, <<3, 4>> >>)>>) >>

EmptyDecl == Decl(NULL, <<>>, <<>>, <<>>, <<>>)

\* "/nope": fopen fails.
NoFile == [exists |-> FALSE, decl |-> EmptyDecl, events |-> <<>>]

\* A file that is cut after its first n events by a syntax error.
BrokenFile(decl, n) ==
  [exists |-> TRUE, decl |-> decl,
   events |-> SubSeq(YamlEvents(decl), 1, n) \o <<Ev(YAML_PARSER_ERROR)>>]

SmallDecl ==
  Decl(settings_name, << <<s1, primary>> >>, <<PScalar(n_f, 1)>>,
       <<PSeq(n_a, <<1, 2>>)>>, <<PSeq(n_x, <<1, 2>>), PSeqSeq(n_z, << <<1>>, <<2>> >>)>>)

EnumDecl ==
  Decl(NULL, <<>>, <<PSeq(n_g, <<4, 5, 6>>)>>, <<>>,
       <<PSeq(n_x, <<1, 2, 3>>), PSeq(n_y, <<4, 5, 6>>)>>)

\* Declarations of single cases.
MoreDecls ==
  << \* fixed: {f: 1, h: []}, lattice: {a: [1, 2]}
    Decl(NULL, <<>>, <<PScalar(n_f, 1), PSeq(n_h, <<>>)>>,
         <<PSeq(n_a, <<1, 2>>)>>, <<>>),
    \* settings: {s1: primary}, fixed: {x: 1, x: 2, z: 3}
    Decl(settings_name, << <<s1, primary>> >>,
         <<PScalar(n_x, 1), PScalar(n_x, 2), PScalar(n_z, 3)>>, <<>>, <<>>),
    \* fixed: {f: 1}, lattice: {f: [1, 2]}
    Decl(NULL, <<>>, <<PScalar(n_f, 1)>>, <<PSeq(n_f, <<1, 2>>)>>, <<>>),
    \* lattice: {a: [1, 2], a: [[1, 2], [3, 4]]},
    \* enumerated: {x: [1, 2, 3], y: [4, 5]}
    Decl(NULL, <<>>, <<>>,
         <<PSeq(n_a, <<1, 2>>), PSeqSeq(n_a, << <<1, 2>>, <<3, 4>> >>)>>,
         <<PSeq(n_x, <<1, 2, 3>>), PSeq(n_y, <<4, 5>>)>>),
    \* fixed: {h: [], h: 1}
    Decl(NULL, <<>>, <<PSeq(n_h, <<>>), PScalar(n_h, 1)>>, <<>>, <<>>),
    \* lattice: {a: [1, 2]}, enumerated: {x: [1, 2], a: [3, 4]}
    Decl(NULL, <<>>, <<>>, <<PSeq(n_a, <<1, 2>>)>>,
         <<PSeq(n_x, <<1, 2>>), PSeq(n_a, <<3, 4>>)>>),
    \* settings: {s1: primary}, fixed: {x.y: 1, y: 2, z: 3}
    Decl(settings_name, << <<s1, primary>> >>,
         <<PScalar(<<"x", ".", "y">>, 1), PScalar(n_y, 2), PScalar(n_z, 3)>>,
         <<>>, <<>>),
    \* fixed: {2x: 1, y: 2}
    Decl(NULL, <<>>, <<PScalar(<<"2", "x">>, 1), PScalar(n_y, 2)>>, <<>>, <<>>),
    \* fixed: {_x: 1, y_0: 2, _z_: 3}
    Decl(NULL, <<>>,
         <<PScalar(<<"_", "x">>, 1), PScalar(<<"y", "_", "0">>, 2),
           PScalar(<<"_", "z", "_">>, 3)>>, <<>>, <<>>),
    \* fixed: {xlog10(y): 1}
    Decl(NULL, <<>>, <<PScalar(<<"x">> \o log10_open \o <<"y", ")">>, 1)>>,
         <<>>, <<>>),
    \* lattice: {log10(x)): [1, 2]}
    Decl(NULL, <<>>, <<>>,
         <<PSeq(log10_open \o <<"x", ")", ")">>, <<1, 2>>)>>, <<>>),
    \* enumerated: {log10(x)y: [1, 2]}
    Decl(NULL, <<>>, <<>>, <<>>,
         <<PSeq(log10_open \o <<"x", ")", "y">>, <<1, 2>>)>>),
    \* settings: {s1: primary},
    \* enumerated: {x: [1, 2, 3], y: [2, 3], z: [3, 4]}
    Decl(settings_name, << <<s1, primary>> >>, <<>>, <<>>,
         <<PSeq(n_x, <<1, 2, 3>>), PSeq(n_y, <<2, 3>>), PSeq(n_z, <<3, 4>>)>>),
    \* enumerated: {x: [0, 10, 2], y: [1, 2, 3, 4, 5, 6]}
    Decl(NULL, <<>>, <<>>, <<>>,
         <<PSeq(n_x, <<0, 10, 2>>), PSeq(n_y, <<1, 2, 3, 4, 5, 6>>)>>),
    \* fixed: {f: 1}, enumerated: {x: [0, 10, 2], y: [1, 2, 3]}
    Decl(NULL, <<>>, <<PScalar(n_f, 1)>>, <<>>,
         <<PSeq(n_x, <<0, 10, 2>>), PSeq(n_y, <<1, 2, 3>>)>>),
    \* enumerated: {x: [1, 2], z: [[1], [2], [3]]}
    Decl(NULL, <<>>, <<>>, <<>>,
         <<PSeq(n_x, <<1, 2>>), PSeqSeq(n_z, << <<1>>, <<2>>, <<3>> >>)>>),
    \* lattice: {a: [1, 2]},
    \* enumerated: {x: [1, 2, 3, 4, 5, 6], z: [[0, 0], [10, 20], [2, 4]]}
    Decl(NULL, <<>>, <<>>, <<PSeq(n_a, <<1, 2>>)>>,
         <<PSeq(n_x, <<1, 2, 3, 4, 5, 6>>),
           PSeqSeq(n_z, << <<0, 0>>, <<10, 20>>, <<2, 4>> >>)>>),
    \* enumerated: {x: [1, 2], e: 7}
    Decl(NULL, <<>>, <<>>, <<>>, <<PSeq(n_x, <<1, 2>>), PScalar(n_e, 7)>>),
    \* lattice: {a: [1, 256, 1], b: [1, 512, 1]}: 2^17 lattice points
    Decl(NULL, <<>>, <<>>,
         <<PSeq(n_a, <<1, 256, 1>>), PSeq(n_b, <<1, 512, 1>>)>>, <<>>),
    \* no_settings: {s1: primary}, fixed: {x: 1, y: 2, z: 3}
    Decl(<<"n", "o", "_">> \o settings_name, << <<s1, primary>> >>,
         <<PScalar(n_x, 1), PScalar(n_y, 2), PScalar(n_z, 3)>>, <<>>, <<>>),
    \* settings: {s1: primary, s1: 2}, fixed: {x: 1, y: 2, z: 3}
    Decl(settings_name, << <<s1, primary>>, <<s1, <<"2">> >> >>,
         <<PScalar(n_x, 1), PScalar(n_y, 2), PScalar(n_z, 3)>>, <<>>, <<>>),
    \* lattice: {log10(k): [0, 4, 2], a: [1, 2]},
    \* enumerated: {log10(y): [0, 2, 1], x: [7, 8, 9]}
    Decl(NULL, <<>>, <<>>,
         <<PSeq(n_log10_k, <<0, 4, 2>>), PSeq(n_a, <<1, 2>>)>>,
         <<PSeq(log10_open \o <<"y", ")">>, <<0, 2, 1>>),
           PSeq(n_x, <<7, 8, 9>>)>>),
    \* fixed: {f: 1}, enumerated: {log10(e): 2}
    Decl(NULL, <<>>, <<PScalar(n_f, 1)>>, <<>>,
         <<PScalar(log10_open \o <<"e", ")">>, 2)>>),
    \* fixed: {f: 1, log10(g): [1, 2]}
    Decl(NULL, <<>>,
         <<PScalar(n_f, 1), PSeq(log10_open \o <<"g", ")">>, <<1, 2>>)>>,
         <<>>, <<>>),
    \* lattice: {log10(c): [[1, 2], [3, 4]]}
    Decl(NULL, <<>>, <<>>,
         <<PSeqSeq(log10_open \o <<"c", ")">>, << <<1, 2>>, <<3, 4>> >>)>>,
         <<>>),
    \* fixed: {log10(x: 1}
    Decl(NULL, <<>>, <<PScalar(log10_open \o <<"x">>, 1)>>, <<>>, <<>>),
    \* lattice: {a: [1, 2], log10(k: [1, 2]}
    Decl(NULL, <<>>, <<>>,
         <<PSeq(n_a, <<1, 2>>), PSeq(log10_open \o <<"k">>, <<1, 2>>)>>,
         <<>>),
    \* enumerated: {log10(y: [1, 2], x: [3, 4]}
    Decl(NULL, <<>>, <<>>, <<>>,
         <<PSeq(log10_open \o <<"y">>, <<1, 2>>), PSeq(n_x, <<3, 4>>)>>),
    \* lattice: {log10(k: [1, 2]}; enumerated: {x: [1, 2], y: [1, 2, 3]}
    Decl(NULL, <<>>, <<>>,
         <<PSeq(log10_open \o <<"k">>, <<1, 2>>)>>,
         <<PSeq(n_x, <<1, 2>>), PSeq(n_y, <<1, 2, 3>>)>>),
    \* lattice: {a: [5]}
    Decl(NULL, <<>>, <<>>, <<PSeq(n_a, <<5>>)>>, <<>>),
    \* fixed: {f: 1}, lattice: {b: [1, 2], c: [[1, 2]]}
    Decl(NULL, <<>>, <<PScalar(n_f, 1)>>,
         <<PSeq(n_b, <<1, 2>>), PSeqSeq(n_c, << <<1, 2>> >>)>>, <<>>),
    \* lattice: {a: [1, [2, 3]]}
    Decl(NULL, <<>>, <<>>,
         <<PMixed(n_a, << <<1>>, <<2, 3>> >>, <<FALSE, TRUE>>)>>, <<>>),
    \* lattice: {a: [1, 2, [3, 4], [5, 6]]}
    Decl(NULL, <<>>, <<>>,
         <<PMixed(n_a, << <<1>>, <<2>>, <<3, 4>>, <<5, 6>> >>,
                  <<FALSE, FALSE, TRUE, TRUE>>)>>,
         <<>>),
    \* fixed: {f: 1}, enumerated: {x: [[3, 4], 1, [5, 6], 2]}
    Decl(NULL, <<>>, <<PScalar(n_f, 1)>>, <<>>,
         <<PMixed(n_x, << <<3, 4>>, <<1>>, <<5, 6>>, <<2>> >>,
                  <<TRUE, FALSE, TRUE, FALSE>>)>>),
    \* settings: {s1: primary}, fixed: {settings: 1, f: 2}, lattice: {a: [1, 2]}
    Decl(settings_name, << <<s1, primary>> >>,
         <<PScalar(settings_name, 1), PScalar(n_f, 2)>>,
         <<PSeq(n_a, <<1, 2>>)>>, <<>>),
    \* fixed: {settings: 1, f: 2}, lattice: {a: [1, 2]}
    Decl(NULL, <<>>, <<PScalar(settings_name, 1), PScalar(n_f, 2)>>,
         <<PSeq(n_a, <<1, 2>>)>>, <<>>),
    \* lattice: {a: [1, 2], b: [1, 6, 1], c: [1, 10923, 1]}:
    \* 2 * 6 * 10923 = 2^17 + 4 lattice points
    Decl(NULL, <<>>, <<>>,
         <<PSeq(n_a, <<1, 2>>), PSeq(n_b, <<1, 6, 1>>),
           PSeq(n_c, <<1, 10923, 1>>)>>, <<>>),
    \* lattice: {a: [1, 250, 1], b: [1, 100, 1]}: 25000 lattice points
    Decl(NULL, <<>>, <<>>,
         <<PSeq(n_a, <<1, 250, 1>>), PSeq(n_b, <<1, 100, 1>>)>>, <<>>),
    \* lattice: {x: [1, 2], log10(x): [0, 1]}
    Decl(NULL, <<>>, <<>>,
         <<PSeq(n_x, <<1, 2>>),
           PSeq(log10_open \o <<"x", ")">>, <<0, 1>>)>>, <<>>),
    \* fixed: {x: 1}, lattice: {log10(x): [0, 1]}
    Decl(NULL, <<>>, <<PScalar(n_x, 1)>>,
         <<PSeq(log10_open \o <<"x", ")">>, <<0, 1>>)>>, <<>>),
    \* lattice: {x: [1, 2]}, enumerated: {log10(x): [0, 1]}
    Decl(NULL, <<>>, <<>>, <<PSeq(n_x, <<1, 2>>)>>,
         <<PSeq(log10_open \o <<"x", ")">>, <<0, 1>>)>>),
    \* fixed: {x: 1, log10(x): 0}
    Decl(NULL, <<>>,
         <<PScalar(n_x, 1), PScalar(log10_open \o <<"x", ")">>, 0)>>,
         <<>>, <<>>),
    \* lattice: {a: []}
    Decl(NULL, <<>>, <<>>, <<PSeq(n_a, <<>>)>>, <<>>),
    \* fixed: {f: 1}, lattice: {a: [1, 2], c: [[], []]}
    Decl(NULL, <<>>, <<PScalar(n_f, 1)>>,
         <<PSeq(n_a, <<1, 2>>), PSeqSeq(n_c, << <<>>, <<>> >>)>>, <<>>),
    \* fixed: {f: 1}, enumerated: {x: [1, 2], y: []}
    Decl(NULL, <<>>, <<PScalar(n_f, 1)>>, <<>>,
         <<PSeq(n_x, <<1, 2>>), PSeq(n_y, <<>>)>>) >>

\* The files of the tests of the public interface.
ApiFileList == <<FileOf(SmallDecl), FileOf(EnumDecl), NoFile>>

\* The files, numbered; a load names its file by its number.
FileList ==
  ApiFileList
  \o <<BrokenFile(SmallDecl, 9)>>
  \o [i \in 1..Len(LatticeDecls) |-> FileOf(LatticeDecls[i])]
  \o [i \in 1..NumPoolDecls |-> FileOf(PoolDecl(i - 1))]
  \o [i \in 1..Len(MoreDecls) |-> FileOf(MoreDecls[i])]

\* The settings block names that callers pass: none, blank, "settings", "input".
BlockList == <<NULL, <<>>, settings_name, input_keyword>>

\* The outcome of loading file i under settings block name j.
Outcomes ==
  [i \in 1..Len(FileList) |->
     [j \in 1..Len(BlockList) |-> LoadOutcome(FileList[i], BlockList[j])]]

AllFileNumbers == 1..Len(FileList)
ApiFileNumbers == 1..Len(ApiFileList)

----------------------------------------------------------------------------
(* The operations of the public interface                                  *)

MaxPasses == 2
MaxSets == 2
MaxKeptRecord == 2

NoLookup ==
  [op |-> "none", name |-> NULL, found |-> FALSE,
   error_code |-> SW_SUCCESS, error_message |-> NoMessage, value |-> <<>>]

NoSource == [file |-> 0, settings_block |-> 0]


\* parse_yaml is not in its loop.
NoParser ==
  [file |-> 0, settings_block |-> 0, next |-> 0,
   state |-> InitState(NULL), data |-> InitData, fault |-> "none"]

\* The caller keeps nothing of an earlier load.
NoHeld ==
  [kept |-> FALSE, source |-> NoSource, result |-> NoResult, loaded |-> FALSE,
   size |-> 0, inputs |-> <<>>, outputs |-> <<>>, settings |-> NoSettings]

Init ==
  /\ status = "running"
  /\ loaded = FALSE
  /\ source = NoSource
  /\ result = NoResult
  /\ yaml = InitData
  /\ size = 0
  /\ position = 0
  /\ inputs = <<>>
  /\ outputs = <<>>
  /\ settings = NoSettings
  /\ in_handle = NullHandle
  /\ out_handle = NullHandle
  /\ next_ret = FALSE
  /\ calls = 0
  /\ passes = 0
  /\ lookup = NoLookup
  /\ nsets = 0
  /\ held = NoHeld
  /\ parser = NoParser

\* A load that finds the names of the load that the caller keeps still in
\* the set of tracked names.
LoadFrom_stale_names(o, i, j) ==
  LET stale == held.kept /\ held.source.file = i /\ o.data.param_names # {}
      oo == IF stale
              THEN Outcome(ErrorResult(SW_INVALID_PARAM_NAME,
                             "Input parameter %s appears more than once!"),
                           "none", o.data, 0, <<>>)
              ELSE o
  IN /\ status = "running"
     /\ ~loaded
     /\ source' = [file |-> i, settings_block |-> j]
     /\ status' = IF oo.fault # "none" THEN oo.fault ELSE "running"
     /\ result' = oo.result
     /\ yaml' = oo.data
     /\ held' = held
     /\ parser' = parser
     /\ loaded' = oo.result.ensemble
     /\ size' = oo.num_inputs
     /\ position' = 0
     /\ inputs' = oo.inputs
     /\ outputs' = [l \in 1..oo.num_inputs |-> NewOutput]
     /\ settings' = IF oo.result.ensemble THEN oo.data.settings ELSE NoSettings
     /\ in_handle' = NullHandle
     /\ out_handle' = NullHandle
     /\ next_ret' = FALSE
     /\ calls' = 0
     /\ passes' = 0
     /\ lookup' = NoLookup
     /\ nsets' = 0

\* What sw_load_ensemble on file i with settings block name number j leaves
\* to its caller when it does o.
LoadReturns(o, i, j) ==
  /\ source' = [file |-> i, settings_block |-> j]
  /\ status' = IF o.fault # "none" THEN o.fault ELSE "running"
  /\ result' = o.result
  /\ yaml' = o.data
  /\ loaded' = o.result.ensemble
  /\ size' = o.num_inputs
  /\ position' = 0
  /\ inputs' = o.inputs
  /\ outputs' = [l \in 1..o.num_inputs |-> NewOutput]
  /\ settings' = IF o.result.ensemble THEN o.data.settings ELSE NoSettings
  /\ in_handle' = NullHandle
  /\ out_handle' = NullHandle
  /\ next_ret' = FALSE
  /\ calls' = 0
  /\ passes' = 0
  /\ lookup' = NoLookup
  /\ nsets' = 0

\* sw_load_ensemble on file number i with settings block name number j, by a
\* caller that holds no ensemble; o is what the call does.
LoadFrom(o, i, j) ==
  /\ status = "running"
  /\ ~loaded
  /\ LoadReturns(o, i, j)
  /\ held' = held
  /\ parser' = parser

\* A request of zero bytes (a record count of 0) is answered by malloc with
\* a pointer or with a null pointer, as the C library chooses: build_ensemble
\* goes on with the first and reports SW_ENSEMBLE_TOO_LARGE on the second.
MallocZero(o) ==
  IF o.result.ensemble /\ o.num_inputs = 0
    THEN {o,
          Outcome(ErrorResult(SW_ENSEMBLE_TOO_LARGE,
                    "The given lattice ensemble (%zd members) is too large to fit into memory."),
                  "none", o.data, 0, <<>>)}
    ELSE {o}

Load(i, j) == \E o \in MallocZero(Outcomes[i][j]) : LoadFrom(o, i, j)

sw_load_ensemble(files) ==
  \E i \in files, j \in 1..Len(BlockList) : Load(i, j)

sw_ensemble_size == size

\* A traversal that ends one record early.
sw_ensemble_next_short ==
  /\ status = "running"
  /\ loaded
  /\ IF position >= size - 1
       THEN /\ passes < MaxPasses
            /\ position' = 0
            /\ in_handle' = NullHandle
            /\ out_handle' = NullHandle
            /\ next_ret' = FALSE
            /\ calls' = 0
            /\ passes' = passes + 1
       ELSE /\ in_handle' = position
            /\ out_handle' = position
            /\ position' = position + 1
            /\ next_ret' = TRUE
            /\ calls' = calls + 1
            /\ UNCHANGED passes
  /\ lookup' = NoLookup
  /\ UNCHANGED <<status, loaded, source, result, yaml, held, parser, size, inputs, outputs,
                 settings, nsets>>

\* A traversal that leaves the cursor at the end when it is exhausted.
sw_ensemble_next_no_reset ==
  /\ status = "running"
  /\ loaded
  /\ IF position >= size
       THEN /\ passes < MaxPasses
            /\ UNCHANGED position
            /\ in_handle' = NullHandle
            /\ out_handle' = NullHandle
            /\ next_ret' = FALSE
            /\ calls' = 0
            /\ passes' = passes + 1
       ELSE /\ in_handle' = position
            /\ out_handle' = position
            /\ position' = position + 1
            /\ next_ret' = TRUE
            /\ calls' = calls + 1
            /\ UNCHANGED passes
  /\ lookup' = NoLookup
  /\ UNCHANGED <<status, loaded, source, result, yaml, held, parser, size, inputs, outputs,
                 settings, nsets>>

sw_ensemble_next ==
  /\ status = "running"
  /\ loaded
  /\ IF position >= size
       THEN /\ passes < MaxPasses
            /\ position' = 0
            /\ in_handle' = NullHandle
            /\ out_handle' = NullHandle
            /\ next_ret' = FALSE
            /\ calls' = 0
            /\ passes' = passes + 1
       ELSE /\ in_handle' = position
            /\ out_handle' = position
            /\ position' = position + 1
            /\ next_ret' = TRUE
            /\ calls' = calls + 1
            /\ UNCHANGED passes
  /\ lookup' = NoLookup
  /\ UNCHANGED <<status, loaded, source, result, yaml, held, parser, size, inputs, outputs,
                 settings, nsets>>

\* sw_ensemble_free; the caller drops the handles with the ensemble.
sw_ensemble_free ==
  /\ status = "running"
  /\ loaded
  /\ loaded' = FALSE
  /\ size' = 0
  /\ position' = 0
  /\ inputs' = <<>>
  /\ outputs' = <<>>
  /\ settings' = NoSettings
  /\ in_handle' = NullHandle
  /\ out_handle' = NullHandle
  /\ next_ret' = FALSE
  /\ calls' = 0
  /\ passes' = 0
  /\ lookup' = NoLookup
  /\ nsets' = 0
  /\ UNCHANGED <<status, source, result, yaml, held, parser>>

Unchanged_by_lookup ==
  UNCHANGED <<status, loaded, source, result, yaml, held, parser, size, position, inputs,
              outputs, settings, in_handle, out_handle, next_ret, calls,
              passes, nsets>>

\* The lookups are made on the input that sw_ensemble_next handed out last.
HasResult(op, name, table) ==
  [op |-> op, name |-> name, found |-> name \in DOMAIN table,
   error_code |-> SW_SUCCESS, error_message |-> NoMessage, value |-> <<>>]

\* A get that reports success whether or not the name is bound.
GetResult_success(op, name, found, value, message) ==
  [op |-> op, name |-> name, found |-> found,
   error_code |-> SW_SUCCESS, error_message |-> NoMessage, value |-> value]

\* The result of a get: value is the value bound to the name when found is
\* TRUE (a scalar as a sequence of one number).
GetResult(op, name, found, value, message) ==
  IF found
    THEN [op |-> op, name |-> name, found |-> TRUE,
          error_code |-> SW_SUCCESS, error_message |-> NoMessage,
          value |-> value]
    ELSE [op |-> op, name |-> name, found |-> FALSE,
          error_code |-> SW_PARAM_NOT_FOUND, error_message |-> message,
          value |-> <<>>]

\* kh_val for a key that kh_get found, <<>> otherwise.
ValueIn(table, name) == IF name \in DOMAIN table THEN table[name] ELSE <<>>

sw_input_has(name) ==
  /\ status = "running" /\ loaded /\ in_handle # NullHandle
  /\ lookup' = HasResult("sw_input_has", name, inputs[in_handle + 1].params)
  /\ Unchanged_by_lookup

sw_input_get(name) ==
  /\ status = "running" /\ loaded /\ in_handle # NullHandle
  /\ LET params == inputs[in_handle + 1].params
     IN lookup' = GetResult("sw_input_get", name, name \in DOMAIN params,
                            <<ValueIn(params, name)>>,
                            "The input parameter '%s' was not found.")
  /\ Unchanged_by_lookup

sw_input_has_array(name) ==
  /\ status = "running" /\ loaded /\ in_handle # NullHandle
  /\ lookup' = HasResult("sw_input_has_array", name,
                         inputs[in_handle + 1].array_params)
  /\ Unchanged_by_lookup

sw_input_get_array(name) ==
  /\ status = "running" /\ loaded /\ in_handle # NullHandle
  /\ LET array_params == inputs[in_handle + 1].array_params
     IN lookup' = GetResult("sw_input_get_array", name,
                            name \in DOMAIN array_params,
                            ValueIn(array_params, name),
                            "The input array parameter '%s' was not found.")
  /\ Unchanged_by_lookup

sw_settings_has(name) ==
  /\ status = "running" /\ loaded /\ ~settings.null
  /\ lookup' = HasResult("sw_settings_has", name, settings.params)
  /\ Unchanged_by_lookup

sw_settings_get(name) ==
  /\ status = "running" /\ loaded /\ ~settings.null
  /\ lookup' = GetResult("sw_settings_get", name,
                         name \in DOMAIN settings.params,
                         ValueIn(settings.params, name),
                         "The setting '%s' was not found.")
  /\ Unchanged_by_lookup

Unchanged_by_set ==
  UNCHANGED <<loaded, source, result, yaml, held, parser, size, position, inputs, settings,
              in_handle, out_handle, next_ret, calls, passes>>

\* A set that writes the metric to the output of every record.
sw_output_set_everywhere(name, value) ==
  /\ status = "running" /\ loaded /\ out_handle # NullHandle
  /\ nsets < MaxSets
  /\ nsets' = nsets + 1
  /\ lookup' = NoLookup
  /\ IF name \in DOMAIN outputs[out_handle + 1].metrics
       THEN /\ status' = "aborted"
            /\ UNCHANGED outputs
       ELSE /\ outputs' = [l \in DOMAIN outputs |->
                             [outputs[l] EXCEPT !.metrics = kh_put(@, name, value)]]
            /\ UNCHANGED status
  /\ Unchanged_by_set

\* sw_output_set on the output that sw_ensemble_next handed out last.
sw_output_set(name, value) ==
  /\ status = "running" /\ loaded /\ out_handle # NullHandle
  /\ nsets < MaxSets
  /\ nsets' = nsets + 1
  /\ lookup' = NoLookup
  /\ IF name \in DOMAIN outputs[out_handle + 1].metrics
       THEN /\ status' = "aborted"
            /\ UNCHANGED outputs
       ELSE /\ outputs' = [outputs EXCEPT ![out_handle + 1].metrics =
                             kh_put(@, name, value)]
            /\ UNCHANGED status
  /\ Unchanged_by_set

sw_output_set_array(name, values) ==
  /\ status = "running" /\ loaded /\ out_handle # NullHandle
  /\ nsets < MaxSets
  /\ nsets' = nsets + 1
  /\ lookup' = NoLookup
  /\ IF name \in DOMAIN outputs[out_handle + 1].array_metrics
       THEN /\ status' = "aborted"
            /\ UNCHANGED outputs
       ELSE /\ outputs' = [outputs EXCEPT ![out_handle + 1].array_metrics =
                             kh_put(@, name, values)]
            /\ UNCHANGED status
  /\ Unchanged_by_set

\* strcmp(s, t) < 0: s comes before t, character code by character code.
RECURSIVE strcmp_less(_, _)
strcmp_less(s, t) ==
  IF Len(t) = 0 THEN FALSE
  ELSE IF Len(s) = 0 THEN TRUE
  ELSE IF Ord(Head(s)) # Ord(Head(t)) THEN Ord(Head(s)) < Ord(Head(t))
  ELSE strcmp_less(Tail(s), Tail(t))

\* qsort with string_cmp on the keys of a table (the keys differ).
RECURSIVE qsort(_)
qsort(keys) ==
  IF keys = {} THEN <<>>
  ELSE LET first == CHOOSE k \in keys :
                      \A other \in keys \ {k} : strcmp_less(k, other)
       IN <<first>> \o qsort(keys \ {first})

\* What fprintf prints for a number under "%.10g": its decimal digits (the
\* numbers of the model are integers of fewer than ten digits).
FormatG(value) == Tok(value)

\* kh_val(table, kh_get(table, name)): the value of the name, and for a name
\* that the table does not hold the stray value that lies behind its end.
kh_val_at(table, name, stray) ==
  IF name \in DOMAIN table THEN table[name] ELSE stray

\* The lines "settings.<name> = '<value>'".
SettingLines(names, params) ==
  [i \in 1..Len(names) |-> <<names[i], params[names[i]]>>]

WrittenSettings(settings_) ==
  IF settings_.null THEN <<>>
  ELSE SettingLines(qsort(DOMAIN settings_.params), settings_.params)

\* The lines "<category>.<name> = [v, v, ...]" for the scalar tables of the
\* records: the names are those of the first record, sorted.
ScalarLines(names, tables, stray) ==
  [i \in 1..Len(names) |->
     <<names[i],
       [l \in 1..Len(tables) |->
          FormatG(kh_val_at(tables[l], names[i], stray))]>>]

WrittenScalars(tables, stray) ==
  ScalarLines(qsort(DOMAIN tables[1]), tables, stray)

FormatArray(values) == [k \in 1..Len(values) |-> FormatG(values[k])]

\* The same for the array tables: "<category>.<name> = [[v, ...], ...]".
ArrayLines(names, tables, stray) ==
  [i \in 1..Len(names) |->
     <<names[i],
       [l \in 1..Len(tables) |->
          FormatArray(kh_val_at(tables[l], names[i], stray))]>>]

WrittenArrays(tables, stray) ==
  ArrayLines(qsort(DOMAIN tables[1]), tables, stray)

\* The Python module that sw_ensemble_write prints.
WrittenModule(stray, stray_array) ==
  [settings |-> WrittenSettings(settings),
   input |-> WrittenScalars([l \in 1..size |-> inputs[l].params], stray),
   array_input |->
     WrittenArrays([l \in 1..size |-> inputs[l].array_params], stray_array),
   output |-> WrittenScalars([l \in 1..size |-> outputs[l].metrics], stray),
   array_output |->
     WrittenArrays([l \in 1..size |-> outputs[l].array_metrics], stray_array)]

WriteResult(error_code, error_message, written, module) ==
  [op |-> "sw_ensemble_write", name |-> NULL, found |-> written,
   error_code |-> error_code, error_message |-> error_message,
   value |-> module]

\* Some record lacks a name that the first record holds: the write reads
\* behind the end of that record's table.
ReadsBehindEnd(tables) ==
  \E l \in 1..Len(tables) : ~(DOMAIN tables[1] \subseteq DOMAIN tables[l])

WriteReadsBehindEnd ==
  \/ ReadsBehindEnd([l \in 1..size |-> inputs[l].params])
  \/ ReadsBehindEnd([l \in 1..size |-> inputs[l].array_params])
  \/ ReadsBehindEnd([l \in 1..size |-> outputs[l].metrics])
  \/ ReadsBehindEnd([l \in 1..size |-> outputs[l].array_metrics])

StrayValues == {0, 5}
StrayArrays == {<<>>, <<5, 6>>}

\* sw_ensemble_write(ensemble, module_filename); can_open tells whether fopen
\* opens the file for writing. A read behind the end of a table ends the
\* process or yields a stray value.
sw_ensemble_write(can_open) ==
  /\ status = "running" /\ loaded
  /\ IF size = 0
       THEN /\ lookup' = WriteResult(SW_EMPTY_ENSEMBLE,
                                     "The given ensemble is empty!", FALSE, <<>>)
            /\ UNCHANGED status
     ELSE IF ~can_open
       THEN /\ lookup' = WriteResult(SW_WRITE_FAILURE,
                           "Could not write ensemble data to '%s'.", FALSE, <<>>)
            /\ UNCHANGED status
     ELSE IF WriteReadsBehindEnd
       THEN \/ /\ status' = "crashed"
               /\ lookup' = WriteResult(SW_SUCCESS, NoMessage, FALSE, <<>>)
            \/ /\ UNCHANGED status
               /\ \E stray \in StrayValues, stray_array \in StrayArrays :
                    lookup' = WriteResult(SW_SUCCESS, NoMessage, TRUE,
                                          WrittenModule(stray, stray_array))
     ELSE /\ lookup' = WriteResult(SW_SUCCESS, NoMessage, TRUE,
                                   WrittenModule(0, <<>>))
          /\ UNCHANGED status
  /\ UNCHANGED <<loaded, source, result, yaml, held, parser, size, position, inputs,
                 outputs, settings, in_handle, out_handle, next_ret, calls,
                 passes, nsets>>
qoi == <<"q","o","i">>
qoi_array == <<"q","o","i","_","a","r","r","a","y">>

InputNames == {n_f, n_z, missing}
SettingNames == {s1, missing}
OutputNames == {qoi}
OutputValues == {4, 5}
OutputArrays == {<<4>>, <<5, 6>>}

LoadApiFile == sw_load_ensemble(ApiFileNumbers)
LoadAnyFile == sw_load_ensemble(AllFileNumbers)
InputHas == \E name \in InputNames : sw_input_has(name)
InputGet == \E name \in InputNames : sw_input_get(name)
InputHasArray == \E name \in InputNames : sw_input_has_array(name)
InputGetArray == \E name \in InputNames : sw_input_get_array(name)
SettingsHas == \E name \in SettingNames : sw_settings_has(name)
SettingsGet == \E name \in SettingNames : sw_settings_get(name)
EnsembleWrite == \E can_open \in BOOLEAN : sw_ensemble_write(can_open)
OutputSet == \E name \in OutputNames, value \in OutputValues :
               sw_output_set(name, value)
OutputSetArray == \E name \in OutputNames, values \in OutputArrays :
                    sw_output_set_array(name, values)

\* The public interface on the files of its tests.
Next ==
  \/ LoadApiFile
  \/ sw_ensemble_next
  \/ sw_ensemble_free
  \/ InputHas
  \/ InputGet
  \/ InputHasArray
  \/ InputGetArray
  \/ SettingsHas
  \/ SettingsGet
  \/ OutputSet
  \/ OutputSetArray

Spec == Init /\ [][Next]_vars

\* Loading and traversing, on all the files.
LoadNext ==
  \/ LoadAnyFile
  \/ sw_ensemble_next
  \/ sw_ensemble_free

LoadSpec == Init /\ [][LoadNext]_vars

\* The numbers and the candidate lists of the files with one lattice or one
\* enumerated parameter a: [v, ...].
RangeValues == {-6, -4, -2, -1, 0, 1, 2, 3, 10}

RangeLists ==
  [1..3 -> RangeValues] \cup [1..2 -> RangeValues]
    \cup {<<0, 10, 2, 1>>, <<1, 2, 3, 4>>}

RangeDecl(group, values) ==
  IF group = lattice_keyword
    THEN Decl(NULL, <<>>, <<>>, <<PSeq(n_a, values)>>, <<>>)
    ELSE Decl(NULL, <<>>, <<>>, <<>>, <<PSeq(n_a, values)>>)

\* sw_load_ensemble, without a settings block name, on the file that
\* declares a: values under group; the file is named by its declarations.
LoadRange(group, values) ==
  \E o \in MallocZero(LoadOutcome(FileOf(RangeDecl(group, values)), NULL)) :
    LoadFrom(o, RangeDecl(group, values), 1)

LoadRangeFile ==
  \E group \in {lattice_keyword, enumerated_keyword}, values \in RangeLists :
    LoadRange(group, values)

\* Loading the files of one candidate list.
RangeSpec == Init /\ [][LoadRangeFile]_vars

\* The caller sets the result of the load that has just returned aside,
\* with the ensemble if there is one, and goes on without freeing it.
KeepEnsemble ==
  /\ status = "running"
  /\ result.returned
  /\ ~held.kept
  /\ calls = 0 /\ passes = 0 /\ nsets = 0
  /\ held' = [kept |-> TRUE, source |-> source, result |-> result,
              loaded |-> loaded, size |-> size, inputs |-> inputs,
              outputs |-> outputs, settings |-> settings]
  /\ loaded' = FALSE
  /\ result' = NoResult
  /\ size' = 0
  /\ position' = 0
  /\ inputs' = <<>>
  /\ outputs' = <<>>
  /\ settings' = NoSettings
  /\ in_handle' = NullHandle
  /\ out_handle' = NullHandle
  /\ next_ret' = FALSE
  /\ lookup' = NoLookup
  /\ UNCHANGED <<status, source, yaml, parser, calls, passes, nsets>>

Unchanged_by_kept ==
  UNCHANGED <<loaded, source, result, yaml, parser, size, position, inputs, outputs,
              settings, in_handle, out_handle, next_ret, calls, passes,
              lookup, nsets>>

\* sw_output_set on the output of record l of the ensemble that the caller
\* keeps.
sw_output_set_kept(l, name, value) ==
  /\ status = "running" /\ held.kept /\ held.loaded
  /\ l \in 1..held.size
  /\ IF name \in DOMAIN held.outputs[l].metrics
       THEN /\ status' = "aborted"
            /\ UNCHANGED held
       ELSE /\ held' = [held EXCEPT !.outputs[l].metrics =
                          kh_put(@, name, value)]
            /\ UNCHANGED status
  /\ Unchanged_by_kept

\* sw_ensemble_free on the ensemble that the caller keeps; a result without
\* an ensemble is dropped.
sw_ensemble_free_kept ==
  /\ status = "running" /\ held.kept
  /\ held' = NoHeld
  /\ UNCHANGED status
  /\ Unchanged_by_kept

\* The files of the interface tests and the files whose record count is 0.
TwoFileNumbers ==
  ApiFileNumbers
    \cup {i \in AllFileNumbers :
            Outcomes[i][1].result.ensemble /\ Outcomes[i][1].num_inputs = 0}

LoadTwoFile == sw_load_ensemble(TwoFileNumbers)
OutputSetKept ==
  \E l \in 1..MaxKeptRecord, name \in OutputNames, value \in OutputValues :
    sw_output_set_kept(l, name, value)

\* A caller that holds two results at a time.
TwoNext ==
  \/ LoadTwoFile
  \/ KeepEnsemble
  \/ sw_ensemble_next
  \/ OutputSet
  \/ OutputSetKept
  \/ sw_ensemble_free
  \/ sw_ensemble_free_kept

TwoSpec == Init /\ [][TwoNext]_vars

\* Loading, traversing, setting outputs and writing the module.
WriteNext ==
  \/ LoadApiFile
  \/ sw_ensemble_next
  \/ OutputSet
  \/ OutputSetArray
  \/ EnsembleWrite
  \/ sw_ensemble_free

WriteSpec == Init /\ [][WriteNext]_vars

\* The indices of lattice point l of build_lattice_ensemble as it was written
\* out for every number of lattice parameters from 1 to 7; n holds the numbers
\* of values of the parameters.
Legacy1(n, l) == <<l>>

Legacy2(n, l) ==
  LET j1 == l \div n[2]
      j2 == l - n[2] * j1
  IN <<j1, j2>>

Legacy3(n, l) ==
  LET j1 == l \div (n[2] * n[3])
      j2 == (l - n[2] * n[3] * j1) \div n[3]
      j3 == l - n[2] * n[3] * j1 - n[3] * j2
  IN <<j1, j2, j3>>

Legacy4(n, l) ==
  LET j1 == l \div (n[2] * n[3] * n[4])
      j2 == (l - n[2] * n[3] * n[4] * j1) \div (n[3] * n[4])
      j3 == (l - n[2] * n[3] * n[4] * j1 - n[3] * n[4] * j2) \div n[4]
      j4 == l - n[2] * n[3] * n[4] * j1 - n[3] * n[4] * j2 - n[4] * j3
  IN <<j1, j2, j3, j4>>

Legacy5(n, l) ==
  LET j1 == l \div (n[2] * n[3] * n[4] * n[5])
      j2 == (l - n[2] * n[3] * n[4] * n[5] * j1) \div (n[3] * n[4] * n[5])
      j3 == (l - n[2] * n[3] * n[4] * n[5] * j1 - n[3] * n[4] * n[5] * j2) \div (n[4] * n[5])
      j4 == (l - n[2] * n[3] * n[4] * n[5] * j1 - n[3] * n[4] * n[5] * j2 - n[4] * n[5] * j3) \div n[5]
      j5 == l - n[2] * n[3] * n[4] * n[5] * j1 - n[3] * n[4] * n[5] * j2 - n[4] * n[5] * j3 - n[5] * j4
  IN <<j1, j2, j3, j4, j5>>

Legacy6(n, l) ==
  LET j1 == l \div (n[2] * n[3] * n[4] * n[5] * n[6])
      j2 == (l - n[2] * n[3] * n[4] * n[5] * n[6] * j1) \div (n[3] * n[4] * n[5] * n[6])
      j3 == (l - n[2] * n[3] * n[4] * n[5] * n[6] * j1 - n[3] * n[4] * n[5] * n[6] * j2) \div (n[4] * n[5] * n[6])
      j4 == (l - n[2] * n[3] * n[4] * n[5] * n[6] * j1 - n[3] * n[4] * n[5] * n[6] * j2 - n[4] * n[5] * n[6] * j3) \div (n[5] * n[6])
      j5 == (l - n[2] * n[3] * n[4] * n[5] * n[6] * j1 - n[3] * n[4] * n[5] * n[6] * j2 - n[4] * n[5] * n[6] * j3 - n[5] * n[6] * j4) \div n[6]
      j6 == l - n[2] * n[3] * n[4] * n[5] * n[6] * j1 - n[3] * n[4] * n[5] * n[6] * j2 - n[4] * n[5] * n[6] * j3 - n[5] * n[6] * j4 - n[6] * j5
  IN <<j1, j2, j3, j4, j5, j6>>

Legacy7(n, l) ==
  LET j1 == l \div (n[2] * n[3] * n[4] * n[5] * n[6] * n[7])
      j2 == (l - n[2] * n[3] * n[4] * n[5] * n[6] * n[7] * j1) \div (n[3] * n[4] * n[5] * n[6] * n[7])
      j3 == (l - n[2] * n[3] * n[4] * n[5] * n[6] * n[7] * j1 - n[3] * n[4] * n[5] * n[6] * n[7] * j2) \div (n[4] * n[5] * n[6] * n[7])
      j4 == (l - n[2] * n[3] * n[4] * n[5] * n[6] * n[7] * j1 - n[3] * n[4] * n[5] * n[6] * n[7] * j2 - n[4] * n[5] * n[6] * n[7] * j3) \div (n[5] * n[6] * n[7])
      j5 == (l - n[2] * n[3] * n[4] * n[5] * n[6] * n[7] * j1 - n[3] * n[4] * n[5] * n[6] * n[7] * j2 - n[4] * n[5] * n[6] * n[7] * j3 - n[5] * n[6] * n[7] * j4) \div (n[6] * n[7])
      j6 == (l - n[2] * n[3] * n[4] * n[5] * n[6] * n[7] * j1 - n[3] * n[4] * n[5] * n[6] * n[7] * j2 - n[4] * n[5] * n[6] * n[7] * j3 - n[5] * n[6] * n[7] * j4 - n[6] * n[7] * j5) \div n[7]
      j7 == l - n[2] * n[3] * n[4] * n[5] * n[6] * n[7] * j1 - n[3] * n[4] * n[5] * n[6] * n[7] * j2 - n[4] * n[5] * n[6] * n[7] * j3 - n[5] * n[6] * n[7] * j4 - n[6] * n[7] * j5 - n[7] * j6
  IN <<j1, j2, j3, j4, j5, j6, j7>>

build_lattice_ensemble_indices(n, l) ==
  CASE Len(n) = 1 -> Legacy1(n, l)
    [] Len(n) = 2 -> Legacy2(n, l)
    [] Len(n) = 3 -> Legacy3(n, l)
    [] Len(n) = 4 -> Legacy4(n, l)
    [] Len(n) = 5 -> Legacy5(n, l)
    [] Len(n) = 6 -> Legacy6(n, l)
    [] Len(n) = 7 -> Legacy7(n, l)

\* The numbers of values of the lattice parameters that are tried.
Cardinalities == {2, 3}

RECURSIVE Product(_)
Product(n) == IF Len(n) = 0 THEN 1 ELSE Head(n) * Product(Tail(n))

\* The indices of lattice point l of a lattice of m parameters with n[i]
\* values, by the loop of assign_lattice_params and by the formulas of
\* build_lattice_ensemble.
IndicesResult(n, l) ==
  [op |-> "assign_lattice_params", name |-> NULL, found |-> TRUE,
   error_code |-> SW_SUCCESS, error_message |-> NoMessage,
   value |-> [n |-> n, l |-> l, j |-> LatticeIndices(n, l),
              legacy |-> build_lattice_ensemble_indices(n, l)]]

\* One lattice point is assigned in a run.
AssignLatticePoint ==
  /\ status = "running"
  /\ ~loaded
  /\ lookup = NoLookup
  /\ \E m \in 1..7 :
       \E n \in [1..m -> Cardinalities] :
         \E l \in 0..(Product(n) - 1) :
           lookup' = IndicesResult(n, l)
  /\ UNCHANGED <<status, loaded, source, result, yaml, held, parser, size, position,
                 inputs, outputs, settings, in_handle, out_handle, next_ret,
                 calls, passes, nsets>>

\* The lattice points of the lattices of one to seven parameters.
IndexSpec == Init /\ [][AssignLatticePoint]_vars

\* Triples (val0, val1, val2) for one position of three candidate arrays:
\* ranges that the guard accepts with 3, 6 and 2 values, a lower bound
\* above the upper, a step beyond the upper bound, steps of zero and below,
\* and ranges below zero.
RangeTriples ==
  {<<0, 10, 5>>, <<0, 10, 2>>, <<1, 2, 1>>, <<5, 1, 1>>, <<0, 2, 5>>,
   <<5, 6, 0>>, <<3, 4, -1>>, <<-6, -2, 1>>, <<-6, 0, 1>>, <<7, 8, 9>>}

\* The three arrays of length 2 with the triple s at the first position and
\* the triple t at the second.
ArraysOf(s, t) == [i \in 1..3 |-> <<s[i], t[i]>>]

ArrayRangeLists ==
  {[i \in 1..3 |-> <<v[i]>>] : v \in [1..3 -> RangeValues]}
    \cup {ArraysOf(s, t) : s, t \in RangeTriples}
    \cup {<< <<0, 1>>, <<10>>, <<2>> >>, << <<0>>, <<10, 11>>, <<2>> >>,
          << <<0>>, <<10>>, <<2, 3>> >>, << <<0>>, <<10>> >>,
          << <<0>>, <<10>>, <<2>>, <<1>> >>}

ArrayRangeDecl(group, arrays) ==
  IF group = lattice_keyword
    THEN Decl(NULL, <<>>, <<>>, <<PSeqSeq(n_a, arrays)>>, <<>>)
    ELSE Decl(NULL, <<>>, <<>>, <<>>, <<PSeqSeq(n_a, arrays)>>)

\* sw_load_ensemble, without a settings block name, on the file that
\* declares a: arrays under group; the file is named by its declarations.
LoadArrayRange(group, arrays) ==
  \E o \in MallocZero(LoadOutcome(FileOf(ArrayRangeDecl(group, arrays)), NULL)) :
    LoadFrom(o, ArrayRangeDecl(group, arrays), 1)

LoadArrayRangeFile ==
  \E group \in {lattice_keyword, enumerated_keyword},
     arrays \in ArrayRangeLists :
    LoadArrayRange(group, arrays)

\* Loading the files of one list of candidate arrays.
ArrayRangeSpec == Init /\ [][LoadArrayRangeFile]_vars
\* Files whose values are nested deeper than a declaration can say, and
\* files with keys and sequences outside the groups of the input block, as
\* the events that yaml_parser_parse delivers for them.
SequenceEvents(body) ==
  <<Ev(YAML_SEQUENCE_START_EVENT)>> \o body \o <<Ev(YAML_SEQUENCE_END_EVENT)>>

\* The events of a file with the top-level entries body.
DocumentEvents(body) ==
  <<Ev(YAML_STREAM_START_EVENT), Ev(YAML_DOCUMENT_START_EVENT),
    Ev(YAML_MAPPING_START_EVENT)>>
  \o body
  \o <<Ev(YAML_MAPPING_END_EVENT), Ev(YAML_DOCUMENT_END_EVENT),
       Ev(YAML_STREAM_END_EVENT)>>

\* input: {group: {body}}
GroupFile(group, body) ==
  DocumentEvents(MappingEvents(input_keyword, MappingEvents(group, body)))

NoDecl == Decl(NULL, <<>>, <<>>, <<>>, <<>>)

RawFile(events) == [exists |-> TRUE, decl |-> NoDecl, events |-> events]

NestedFileList ==
  << \* lattice: {a: {b: 1}}
    RawFile(GroupFile(lattice_keyword,
      MappingEvents(n_a, <<Scalar(n_b), Scalar(Tok(1))>>))),
    \* lattice: {a: [1, {b: 2}]}
    RawFile(GroupFile(lattice_keyword,
      <<Scalar(n_a)>> \o SequenceEvents(<<Scalar(Tok(1)),
          Ev(YAML_MAPPING_START_EVENT), Scalar(n_b), Scalar(Tok(2)),
          Ev(YAML_MAPPING_END_EVENT)>>))),
    \* enumerated: {x: [[1, {b: 2}], [3, 4]]}
    RawFile(GroupFile(enumerated_keyword,
      <<Scalar(n_x)>> \o SequenceEvents(
          SequenceEvents(<<Scalar(Tok(1)),
            Ev(YAML_MAPPING_START_EVENT), Scalar(n_b), Scalar(Tok(2)),
            Ev(YAML_MAPPING_END_EVENT)>>)
          \o SequenceEvents(<<Scalar(Tok(3)), Scalar(Tok(4))>>)))),
    \* fixed: {f: {b: 1}}
    RawFile(GroupFile(fixed_keyword,
      MappingEvents(n_f, <<Scalar(n_b), Scalar(Tok(1))>>))),
    \* fixed: {f: [1, {b: 2}]}
    RawFile(GroupFile(fixed_keyword,
      <<Scalar(n_f)>> \o SequenceEvents(<<Scalar(Tok(1)),
          Ev(YAML_MAPPING_START_EVENT), Scalar(n_b), Scalar(Tok(2)),
          Ev(YAML_MAPPING_END_EVENT)>>))),
    \* lattice: {a: [[1, [2]], [3, 4]]}
    RawFile(GroupFile(lattice_keyword,
      <<Scalar(n_a)>> \o SequenceEvents(
          SequenceEvents(<<Scalar(Tok(1))>> \o SequenceEvents(<<Scalar(Tok(2))>>))
          \o SequenceEvents(<<Scalar(Tok(3)), Scalar(Tok(4))>>)))),
    \* enumerated: {x: [[1, 2], [[3], 4]]}
    RawFile(GroupFile(enumerated_keyword,
      <<Scalar(n_x)>> \o SequenceEvents(
          SequenceEvents(<<Scalar(Tok(1)), Scalar(Tok(2))>>)
          \o SequenceEvents(SequenceEvents(<<Scalar(Tok(3))>>)
                            \o <<Scalar(Tok(4))>>)))),
    \* fixed: {f: [1, [2]]}
    RawFile(GroupFile(fixed_keyword,
      <<Scalar(n_f)>> \o SequenceEvents(
          <<Scalar(Tok(1))>> \o SequenceEvents(<<Scalar(Tok(2))>>)))),
    \* fixed: {f: [[1, 2]]}
    RawFile(GroupFile(fixed_keyword,
      <<Scalar(n_f)>> \o SequenceEvents(
          SequenceEvents(<<Scalar(Tok(1)), Scalar(Tok(2))>>)))),
    \* fixed: {settings: {b: 1}}
    RawFile(GroupFile(fixed_keyword,
      MappingEvents(settings_name, <<Scalar(n_b), Scalar(Tok(1))>>))),
    \* lattice: {settings: [[1, [2]], [3, 4]]}
    RawFile(GroupFile(lattice_keyword,
      <<Scalar(settings_name)>> \o SequenceEvents(
          SequenceEvents(<<Scalar(Tok(1))>> \o SequenceEvents(<<Scalar(Tok(2))>>))
          \o SequenceEvents(<<Scalar(Tok(3)), Scalar(Tok(4))>>)))) >>

no_settings == <<"n","o","_","s","e","t","t","i","n","g","s">>
n_other == <<"o","t","h","e","r">>

\* Files with a key that the schema does not know.
UnknownKeyFileList ==
  << \* no_settings: {a: 1}, input: {fixed: {x: 1, y: 2, z: 3}}
    RawFile(DocumentEvents(
      MappingEvents(no_settings, <<Scalar(n_a), Scalar(Tok(1))>>)
      \o MappingEvents(input_keyword, MappingEvents(fixed_keyword,
           <<Scalar(n_x), Scalar(Tok(1)), Scalar(n_y), Scalar(Tok(2)),
             Scalar(n_z), Scalar(Tok(3))>>)))),
    \* input: {fixed: {x: 1}}, other: {a: 1}
    RawFile(DocumentEvents(
      MappingEvents(input_keyword, MappingEvents(fixed_keyword,
           <<Scalar(n_x), Scalar(Tok(1))>>))
      \o MappingEvents(n_other, <<Scalar(n_a), Scalar(Tok(1))>>))),
    \* input: {other: {x: 1}}
    RawFile(GroupFile(n_other, <<Scalar(n_x), Scalar(Tok(1))>>)),
    \* input: {fixed: {x: 1}, other: {y: 2}}
    RawFile(DocumentEvents(MappingEvents(input_keyword,
      MappingEvents(fixed_keyword, <<Scalar(n_x), Scalar(Tok(1))>>)
      \o MappingEvents(n_other, <<Scalar(n_y), Scalar(Tok(2))>>)))),
    \* settings: {s1: primary}, other: {a: 1}, input: {lattice: {a: [1, 2]}}
    RawFile(DocumentEvents(
      MappingEvents(settings_name, <<Scalar(s1), Scalar(primary)>>)
      \o MappingEvents(n_other, <<Scalar(n_a), Scalar(Tok(1))>>)
      \o MappingEvents(input_keyword, MappingEvents(lattice_keyword,
           <<Scalar(n_a)>>
           \o SequenceEvents(<<Scalar(Tok(1)), Scalar(Tok(2))>>))))),
    \* other: 5, input: {fixed: {x: 1}}
    RawFile(DocumentEvents(
      <<Scalar(n_other), Scalar(Tok(5))>>
      \o MappingEvents(input_keyword, MappingEvents(fixed_keyword,
           <<Scalar(n_x), Scalar(Tok(1))>>)))) >>

\* Well-formed files with a sequence where no parameter name is pending: in
\* the settings block, under a top-level key that is not a keyword, under
\* input, and under a group keyword.
SequenceFileList ==
  << \* settings: {s1: [primary, a]}, input: {fixed: {x: 1}}
    RawFile(DocumentEvents(
      MappingEvents(settings_name,
        <<Scalar(s1)>> \o SequenceEvents(<<Scalar(primary), Scalar(n_a)>>))
      \o MappingEvents(input_keyword, MappingEvents(fixed_keyword,
           <<Scalar(n_x), Scalar(Tok(1))>>)))),
    \* other: [1, 2], input: {fixed: {x: 1}}
    RawFile(DocumentEvents(
      <<Scalar(n_other)>> \o SequenceEvents(<<Scalar(Tok(1)), Scalar(Tok(2))>>)
      \o MappingEvents(input_keyword, MappingEvents(fixed_keyword,
           <<Scalar(n_x), Scalar(Tok(1))>>)))),
    \* input: []
    RawFile(DocumentEvents(<<Scalar(input_keyword)>> \o SequenceEvents(<<>>))),
    \* input: {lattice: {a: [1, 2]}, enumerated: []}
    RawFile(DocumentEvents(MappingEvents(input_keyword,
      MappingEvents(lattice_keyword,
        <<Scalar(n_a)>> \o SequenceEvents(<<Scalar(Tok(1)), Scalar(Tok(2))>>))
      \o <<Scalar(enumerated_keyword)>> \o SequenceEvents(<<>>)))),
    \* input: {enumerated: {x: [1, 2]}}, settings: {s1: [primary]}
    RawFile(DocumentEvents(
      MappingEvents(input_keyword, MappingEvents(enumerated_keyword,
        <<Scalar(n_x)>> \o SequenceEvents(<<Scalar(Tok(1)), Scalar(Tok(2))>>)))
      \o MappingEvents(settings_name,
           <<Scalar(s1)>> \o SequenceEvents(<<Scalar(primary)>>)))) >>
RawFileList == NestedFileList \o UnknownKeyFileList \o SequenceFileList

\* The files that parse_yaml is followed on, event by event.
ParseFileList == FileList \o RawFileList

\* parse_yaml reads events: whether the loop of parse_yaml is running.
Parsing == parser.next > 0

\* The events of the file that parse_yaml reads.
ParserEvents == ParseFileList[parser.file].events

\* How the iteration before this one left the loop.
ParserStep == [state |-> parser.state, data |-> parser.data, fault |-> parser.fault]

\* The loop has ended: the iteration before this one ended it, or no event
\* is left.
LoopEnded ==
  \/ parser.next > Len(ParserEvents)
  \/ parser.next > 1 /\ LoopEnds(ParserEvents[parser.next - 1], ParserStep)

\* parse_yaml up to its loop on an open file: the tables are made, the
\* parser state holds the settings block name and no flag.
OpenFile(i, j) ==
  /\ status = "running"
  /\ ~loaded
  /\ ~Parsing
  /\ source = NoSource
  /\ ParseFileList[i].exists
  /\ BlockList[j] # input_keyword
  /\ parser' = [file |-> i, settings_block |-> j, next |-> 1,
                state |-> InitState(BlockList[j]), data |-> InitData,
                fault |-> "none"]
  /\ UNCHANGED <<status, loaded, source, result, size, position, inputs,
                 outputs, settings, in_handle, out_handle, next_ret, calls,
                 passes, lookup, nsets, yaml, held>>

ParseAnyFile == \E i \in 1..Len(ParseFileList), j \in 1..Len(BlockList) : OpenFile(i, j)

\* The state of the loop after the iteration on event number next.
AfterEvent(h) ==
  [parser EXCEPT !.next = @ + 1, !.state = h.state, !.data = h.data,
                 !.fault = h.fault]

\* One iteration of the do-while loop of parse_yaml.
HandleNextEvent ==
  /\ Parsing
  /\ ~LoopEnded
  /\ parser' = AfterEvent(ParseEvent(ParserEvents[parser.next], ParserStep))
  /\ UNCHANGED <<status, loaded, source, result, size, position, inputs,
                 outputs, settings, in_handle, out_handle, next_ret, calls,
                 passes, lookup, nsets, yaml, held>>

\* The rest of sw_load_ensemble after the loop of parse_yaml: the checks and
\* the postprocessing of parse_yaml, build_ensemble, and the return.
ReturnData ==
  /\ Parsing
  /\ LoopEnded
  /\ \E o \in MallocZero(LoadParsed(ParseDone(BlockList[parser.settings_block],
                                               ParserStep))) :
       LoadReturns(o, parser.file, parser.settings_block)
  /\ parser' = NoParser
  /\ held' = held

ParseNext ==
  \/ ParseAnyFile
  \/ HandleNextEvent
  \/ ReturnData

\* The event loop of parse_yaml on every file, event by event.
ParseSpec == Init /\ [][ParseNext]_vars

\* The caller leaves a loop `while (sw_ensemble_next(...))` before next has
\* returned false: a break or a return in the loop body, or an exception
\* thrown by the callback of Ensemble::process, which the loop does not
\* catch. Nothing of the ensemble changes; the loop that the caller writes
\* next counts its calls from 0.
AbandonPass ==
  /\ status = "running"
  /\ loaded
  /\ next_ret
  /\ calls > 0
  /\ calls' = 0
  /\ UNCHANGED <<status, loaded, source, result, size, position, inputs,
                 outputs, settings, in_handle, out_handle, next_ret, passes,
                 lookup, nsets, yaml, held, parser>>

PassNext ==
  \/ LoadApiFile
  \/ sw_ensemble_next
  \/ AbandonPass

\* Loops over the ensemble, some of them left early.
PassSpec == Init /\ [][PassNext]_vars

----------------------------------------------------------------------------
(* Properties                                                              *)

\* The names of a table that are traversed: more than one candidate value.
VaryingNames(table) == {name \in DOMAIN table : Len(table[name]) > 1}

\* The product of the candidate counts of names in table.
RECURSIVE CountProduct(_, _)
CountProduct(table, names) ==
  IF names = {} THEN 1
  ELSE LET name == CHOOSE n \in names : TRUE
       IN Len(table[name]) * CountProduct(table, names \ {name})

\* The common length L of the enumerated candidate lists, 1 without any.
EnumeratedLength(data) ==
  LET lengths ==
        {Len(data.enumerated_input[n]) : n \in DOMAIN data.enumerated_input}
        \cup {Len(data.enumerated_array_input[n]) :
                n \in DOMAIN data.enumerated_array_input}
  IN IF lengths = {} THEN 1 ELSE CHOOSE L \in lengths : TRUE

\* The number of lattice points: the product of the candidate counts of the
\* varying lattice names, scalar and array.
LatticePoints(data) ==
  CountProduct(data.lattice_input, VaryingNames(data.lattice_input))
  * CountProduct(data.lattice_array_input,
                 VaryingNames(data.lattice_array_input))

ExpectedSize(data) == LatticePoints(data) * EnumeratedLength(data)

\* C1: the size of a loaded ensemble is the product of the candidate counts
\* (after range expansion) of its varying lattice names, times the common
\* length of its enumerated names when it has any; it is that length alone
\* without varying lattice names and 1 with only fixed or pinned names, and
\* the fixed names play no part in it.  The ensemble holds that many records.
C1_SizeIsProduct ==
  loaded =>
    /\ sw_ensemble_size = ExpectedSize(yaml)
    /\ Len(inputs) = sw_ensemble_size
    /\ Len(outputs) = sw_ensemble_size

\* A loaded mixed ensemble: two varying lattice names, enumerated names of
\* length two or more, and fixed names.
C1_Witness ==
  /\ loaded
  /\ Cardinality(VaryingNames(yaml.lattice_input)) >= 2
  /\ EnumeratedLength(yaml) >= 2
  /\ NumEnumeratedParams(yaml) > 0
  /\ NumFixedParams(yaml) > 0
  /\ sw_ensemble_size = ExpectedSize(yaml)
  /\ sw_ensemble_size >= 8

\* The name under which a declared lattice name is stored: X for log10(X).
StoredName(name) ==
  IF HasLog10Prefix(name) THEN SubSeq(name, Len(log10_open) + 1, Len(name) - 1)
  ELSE name

\* The varying lattice names of the loaded file in the order in which the
\* file declares them, each as <<is_array, name>>.
DeclaredDims ==
  LET lattice == FileList[source.file].decl.lattice
  IN SelectSeq([i \in 1..Len(lattice) |->
                  <<lattice[i].shape = "seqseq", StoredName(lattice[i].name)>>],
               LAMBDA dim :
                 IF dim[1]
                   THEN dim[2] \in VaryingNames(yaml.lattice_array_input)
                   ELSE dim[2] \in VaryingNames(yaml.lattice_input))

\* The number of lattice points over which every dimension after the i-th
\* of sizes n runs while the i-th stands still.
RECURSIVE Stride(_, _)
Stride(n, i) == IF i >= Len(n) THEN 1 ELSE n[i + 1] * Stride(n, i + 1)

\* The value that a record binds to a dimension.
BoundValue(input, dim) ==
  IF dim[1] THEN input.array_params[dim[2]] ELSE input.params[dim[2]]

\* Record l is the lattice point l div L of the row-major traversal of dims.
RowMajor(dims, l) ==
  LET n == [i \in 1..Len(dims) |-> Len(DimValues(yaml, dims[i]))]
      point == l \div EnumeratedLength(yaml)
  IN \A i \in 1..Len(dims) :
       BoundValue(inputs[l + 1], dims[i])
         = DimValues(yaml, dims[i])[((point \div Stride(n, i)) % n[i]) + 1]

\* C2: the records of a loaded ensemble traverse the varying lattice names
\* row-major in the order in which the file declares them: the name declared
\* last varies fastest, the name declared first slowest.
C2_DeclarationOrder ==
  loaded => \A l \in 0..(sw_ensemble_size - 1) : RowMajor(DeclaredDims, l)

\* The lattice values of a record: what it binds to the varying lattice names.
LatticePoint(input) ==
  <<[name \in VaryingNames(yaml.lattice_input) |-> input.params[name]],
    [name \in VaryingNames(yaml.lattice_array_input) |->
       input.array_params[name]]>>

\* C3: with enumerated names of common length L, record l binds every
\* enumerated name to its candidate at position l mod L and takes its
\* lattice values from lattice index l div L: the records of one lattice
\* index share their lattice values, and the records of the next lattice
\* index have others (the candidate values of every name being distinct).
C3_EnumerationFastest ==
  loaded =>
    LET L == EnumeratedLength(yaml) IN
    \A l \in 0..(sw_ensemble_size - 1) :
      /\ \A name \in DOMAIN yaml.enumerated_input :
           inputs[l + 1].params[name]
             = yaml.enumerated_input[name][(l % L) + 1]
      /\ \A name \in DOMAIN yaml.enumerated_array_input :
           inputs[l + 1].array_params[name]
             = yaml.enumerated_array_input[name][(l % L) + 1]
      /\ LatticePoint(inputs[l + 1])
           = LatticePoint(inputs[(l \div L) * L + 1])
      /\ l >= L =>
           LatticePoint(inputs[l + 1]) # LatticePoint(inputs[l - L + 1])

\* A loaded mixed ensemble with several lattice points and an enumeration
\* of several positions, scalar and array.
C3_Witness ==
  /\ loaded
  /\ LatticePoints(yaml) >= 2
  /\ EnumeratedLength(yaml) >= 2
  /\ DOMAIN yaml.enumerated_input # {}
  /\ DOMAIN yaml.enumerated_array_input # {}
  /\ sw_ensemble_size = LatticePoints(yaml) * EnumeratedLength(yaml)
  /\ LatticePoint(inputs[1]) # LatticePoint(inputs[sw_ensemble_size])

\* The names that the records of an ensemble built from data bind.
ScalarNames(data) ==
  {name \in DOMAIN data.fixed_input : Len(data.fixed_input[name]) = 1}
  \cup DOMAIN data.lattice_input \cup DOMAIN data.enumerated_input

ArrayNames(data) ==
  {name \in DOMAIN data.fixed_array_input :
     Len(data.fixed_array_input[name]) = 1}
  \cup DOMAIN data.lattice_array_input
  \cup DOMAIN data.enumerated_array_input

\* The ensemble that a successful load returned is whole: an input and an
\* empty output for each record, every record binding all the names, the
\* cursor at the start.
Populated ==
  /\ Len(inputs) = sw_ensemble_size
  /\ Len(outputs) = sw_ensemble_size
  /\ \A l \in 1..sw_ensemble_size :
       /\ DOMAIN inputs[l].params = ScalarNames(yaml)
       /\ DOMAIN inputs[l].array_params = ArrayNames(yaml)
  /\ settings = yaml.settings

\* C4: a load that returns yields either success, with no message and with
\* the ensemble (and the settings it read) populated, or an error code with
\* a message and neither ensemble nor settings; never both, never a part.
C4_EnsembleOrError ==
  result.returned =>
    /\ (result.error_code = SW_SUCCESS) <=> result.ensemble
    /\ result.error_code = SW_SUCCESS =>
         /\ result.error_message = NoMessage
         /\ result.settings <=> ~yaml.settings.null
         /\ loaded => Populated
    /\ result.error_code # SW_SUCCESS =>
         /\ result.error_message # NoMessage
         /\ ~result.settings
         /\ ~loaded
         /\ sw_ensemble_size = 0 /\ inputs = <<>> /\ outputs = <<>>
         /\ settings = NoSettings

\* A load that failed after it had read settings and parameters.
C4_Witness ==
  /\ result.returned
  /\ result.error_code = SW_TOO_MANY_LATTICE_PARAMS
  /\ ~yaml.settings.null
  /\ NumLatticeParams(yaml) > 0
  /\ ~result.ensemble /\ ~result.settings

\* C5: on a freshly loaded ensemble of n records the first n calls of next
\* return true, the k-th handing out the input and output of record k - 1,
\* and call n + 1 returns false with both handles null.
C5_FirstPass ==
  [][(sw_ensemble_next /\ passes = 0) =>
       IF calls < sw_ensemble_size
         THEN next_ret' /\ in_handle' = calls /\ out_handle' = calls
         ELSE /\ ~next_ret'
              /\ in_handle' = NullHandle /\ out_handle' = NullHandle]_vars

\* The first pass over an ensemble of several records has just ended.
C5_Witness ==
  /\ loaded
  /\ sw_ensemble_size >= 2
  /\ passes = 1 /\ calls = 0
  /\ ~next_ret
  /\ in_handle = NullHandle /\ out_handle = NullHandle

\* C6: the cursor of a loaded ensemble stays within 0 .. size; a call of
\* next that returns false leaves it at 0, and the calls that follow hand
\* out the same records in the same order again, pass after pass.
C6_Resettable ==
  /\ [](loaded => 0 <= position /\ position <= sw_ensemble_size)
  /\ [][sw_ensemble_next =>
          /\ inputs' = inputs
          /\ IF calls < sw_ensemble_size
               THEN /\ next_ret'
                    /\ in_handle' = calls /\ out_handle' = calls
                    /\ position' = calls + 1
               ELSE /\ ~next_ret'
                    /\ position' = 0]_vars

\* A second pass has handed out every record and has ended.
C6_Witness ==
  /\ loaded
  /\ sw_ensemble_size >= 2
  /\ passes = 2
  /\ position = 0
  /\ ~next_ret

\* C7: setting an output metric, scalar or array, never fails: the call
\* completes, and the record then binds the name to the value given, also
\* when the name was bound before.
C7_SetNeverFails ==
  [][/\ \A name \in OutputNames, value \in OutputValues :
          sw_output_set(name, value) =>
            /\ status' = "running"
            /\ name \in DOMAIN outputs'[out_handle + 1].metrics
            /\ outputs'[out_handle + 1].metrics[name] = value
     /\ \A name \in OutputNames, values \in OutputArrays :
          sw_output_set_array(name, values) =>
            /\ status' = "running"
            /\ name \in DOMAIN outputs'[out_handle + 1].array_metrics
            /\ outputs'[out_handle + 1].array_metrics[name] = values]_vars

\* The table that the last lookup searched.
LookupTable ==
  IF lookup.op \in {"sw_input_has", "sw_input_get"}
    THEN inputs[in_handle + 1].params
  ELSE IF lookup.op \in {"sw_input_has_array", "sw_input_get_array"}
    THEN inputs[in_handle + 1].array_params
  ELSE settings.params

\* What the last lookup returned agrees with the table it searched.
LookupAnswer ==
  lookup.op # "none" =>
    LET bound == lookup.name \in DOMAIN LookupTable IN
    /\ lookup.found <=> bound
    /\ lookup.op \in {"sw_input_has", "sw_input_has_array", "sw_settings_has"}
         => lookup.error_code = SW_SUCCESS
    /\ lookup.op \in {"sw_input_get", "sw_input_get_array", "sw_settings_get"} =>
         IF bound
           THEN /\ lookup.error_code = SW_SUCCESS
                /\ lookup.error_message = NoMessage
                /\ lookup.value = IF lookup.op = "sw_input_get"
                                    THEN <<LookupTable[lookup.name]>>
                                    ELSE LookupTable[lookup.name]
           ELSE /\ lookup.error_code = SW_PARAM_NOT_FOUND
                /\ lookup.error_message # NoMessage

\* C8: a get of a name that the record (or the settings) does not bind
\* returns the not-found error with a message, and a has of it returns
\* false; no lookup changes the ensemble, its records, its settings or its
\* cursor, and the traversal goes on from where it was.
C8_LookupNotFound ==
  /\ []LookupAnswer
  /\ [][lookup'.op # "none" =>
          UNCHANGED <<status, loaded, size, position, inputs, outputs,
                      settings, in_handle, out_handle, calls, passes>>]_vars
  /\ [][(lookup.op # "none" /\ sw_ensemble_next) =>
          IF calls < sw_ensemble_size
            THEN next_ret' /\ in_handle' = calls
            ELSE ~next_ret']_vars

\* A get of a name that the record at hand does not bind has returned.
C8_Witness ==
  /\ loaded
  /\ lookup.op = "sw_input_get"
  /\ lookup.name = missing
  /\ lookup.name \notin DOMAIN inputs[in_handle + 1].params
  /\ lookup.error_code = SW_PARAM_NOT_FOUND
  /\ in_handle >= 1

\* C9: setting an output metric changes the output of the record at hand
\* only: the inputs, the outputs of the other records, the settings, the
\* size and the cursor stay as they were; and nothing changes the inputs or
\* the settings of an ensemble while it is loaded.
C9_SetFrame ==
  /\ [][(OutputSet \/ OutputSetArray) =>
          /\ UNCHANGED <<inputs, settings, size, position, loaded>>
          /\ \A l \in 1..sw_ensemble_size :
               l # out_handle + 1 => outputs'[l] = outputs[l]]_vars
  /\ [][(loaded /\ loaded') => UNCHANGED <<inputs, settings, size>>]_vars

\* Metrics have been set on two records and not on a third.
C9_Witness ==
  /\ loaded /\ status = "running"
  /\ sw_ensemble_size >= 3
  /\ \E l1, l2, l3 \in 1..sw_ensemble_size :
       /\ qoi \in DOMAIN outputs[l1].metrics
       /\ qoi \in DOMAIN outputs[l2].array_metrics
       /\ l1 # l2
       /\ outputs[l3] = NewOutput

\* The number of varying lattice names, scalar and array.
VaryingCount(data) ==
  Cardinality(VaryingNames(data.lattice_input))
  + Cardinality(VaryingNames(data.lattice_array_input))

\* C10: a load is rejected with the too-many-lattice-parameters error
\* exactly when the file has more than 7 varying lattice names, scalar and
\* array together; 7 are accepted, and a lattice name pinned to one value
\* does not count.
C10_TooManyExactly ==
  result.returned =>
    /\ result.error_code = SW_TOO_MANY_LATTICE_PARAMS
         => VaryingCount(yaml) > MaxLatticeParams
    /\ (yaml.error_code = SW_SUCCESS /\ VaryingCount(yaml) > MaxLatticeParams)
         => result.error_code = SW_TOO_MANY_LATTICE_PARAMS

\* The lattice names pinned to a single value by a plain scalar.
PinnedNames(data) ==
  {name \in DOMAIN data.lattice_input : Len(data.lattice_input[name]) = 1}

\* The number of names that build_ensemble counts as lattice parameters.
DeclaredLattice(data) ==
  Cardinality(DOMAIN data.lattice_input)
  + Cardinality(DOMAIN data.lattice_array_input)

\* A load that was called on a file that parsed and validated, whose lattice
\* holds a pinned name and no more names than the limit.
PinnedLoad ==
  /\ source # NoSource
  /\ yaml.error_code = SW_SUCCESS
  /\ PinnedNames(yaml) # {}
  /\ DeclaredLattice(yaml) <= MaxLatticeParams

\* C11: a lattice name declared with a plain scalar behaves as a fixed
\* parameter: the load succeeds, every record binds the name to that value,
\* and the record count is that of the other names.
C11_PinnedIsFixed ==
  PinnedLoad =>
    /\ status = "running"
    /\ result.returned
    /\ result.error_code = SW_SUCCESS
    /\ loaded =>
         /\ sw_ensemble_size = ExpectedSize(yaml)
         /\ \A l \in 1..Len(inputs), name \in PinnedNames(yaml) :
              /\ name \in DOMAIN inputs[l].params
              /\ inputs[l].params[name] = yaml.lattice_input[name][1]

\* The fixed parameters that the loaded file declares.
DeclaredFixed == FileList[source.file].decl.fixed

\* The numbers written for parameter param, one after the other.
WrittenValues(param) == Flatten(param.cands)

\* Record input binds the fixed parameter param to the value written for it:
\* a scalar to its number, a sequence to the array of its numbers.
BindsFixed(input, param) ==
  IF param.shape = "scalar"
    THEN /\ param.name \in DOMAIN input.params
         /\ input.params[param.name] = WrittenValues(param)[1]
    ELSE /\ param.name \in DOMAIN input.array_params
         /\ input.array_params[param.name] = WrittenValues(param)

\* C12: every fixed parameter of the file, scalar or array, is present in
\* every record of the loaded ensemble with the value written in the file,
\* the same in all records, whatever the lattice and enumerated parameters.
C12_FixedEverywhere ==
  loaded =>
    \A i \in 1..Len(DeclaredFixed), l \in 1..Len(inputs) :
      BindsFixed(inputs[l], DeclaredFixed[i])

\* The same for the fixed parameters written with at least one number.
C12_NonEmptyFixedEverywhere ==
  loaded =>
    \A i \in 1..Len(DeclaredFixed), l \in 1..Len(inputs) :
      Len(WrittenValues(DeclaredFixed[i])) > 0
        => BindsFixed(inputs[l], DeclaredFixed[i])

\* The file that the last load named, and what it declares.
SourceFile == FileList[source.file]
SourceDecl == SourceFile.decl

\* The load got as far as reading the whole file: the settings block name
\* was admissible, the file opened, and the event stream is that of its
\* declarations.
ReadWhole ==
  /\ source # NoSource
  /\ BlockList[source.settings_block] # input_keyword
  /\ SourceFile.exists
  /\ SourceFile.events = YamlEvents(SourceDecl)

\* The parameter names of decl in the order of the file.
DeclaredNames(decl) ==
  [i \in 1..Len(decl.fixed) |-> decl.fixed[i].name]
    \o [i \in 1..Len(decl.lattice) |-> decl.lattice[i].name]
    \o [i \in 1..Len(decl.enumerated) |-> decl.enumerated[i].name]

HasRepeat(names) ==
  \E i, k \in 1..Len(names) : i < k /\ names[i] = names[k]

\* C13: parameter names are unique over the input block: a file in which a
\* name occurs a second time, in the same group or in another, fails to load
\* with invalid-parameter-name, raised where the second occurrence is read,
\* and no ensemble is produced.
C13_DuplicateName ==
  (ReadWhole /\ HasRepeat(DeclaredNames(SourceDecl))) =>
    /\ result.returned
    /\ result.error_code = SW_INVALID_PARAM_NAME
    /\ result.error_message = "Input parameter %s appears more than once!"
    /\ ~result.ensemble
    /\ ~loaded
    /\ inputs = <<>>

\* A rejected load of a file that repeats a name of its lattice group in its
\* enumerated group.
C13_Witness ==
  /\ ReadWhole
  /\ \E i \in 1..Len(SourceDecl.lattice), k \in 1..Len(SourceDecl.enumerated) :
       SourceDecl.lattice[i].name = SourceDecl.enumerated[k].name
  /\ result.returned
  /\ result.error_code = SW_INVALID_PARAM_NAME

\* s matches [A-Za-z_][A-Za-z0-9_]*.
PlainName(s) ==
  /\ Len(s) >= 1
  /\ isalpha(s[1]) \/ s[1] = "_"
  /\ \A i \in 2..Len(s) : isalnum(s[i]) \/ s[i] = "_"

\* s is log10( + a plain name + ).
Log10Name(s) ==
  /\ Len(s) > Len(log10_open) + 1
  /\ SubSeq(s, 1, Len(log10_open)) = log10_open
  /\ s[Len(s)] = ")"
  /\ PlainName(SubSeq(s, Len(log10_open) + 1, Len(s) - 1))

WellFormedName(s) == PlainName(s) \/ Log10Name(s)

\* The declared names that are not well formed.
MalformedNames(decl) ==
  {i \in 1..Len(DeclaredNames(decl)) : ~WellFormedName(DeclaredNames(decl)[i])}

\* C14: a parameter name is accepted exactly when it matches
\* [A-Za-z_][A-Za-z0-9_]* or is log10( + such a name + ); a file with any
\* other name fails to load with invalid-parameter-name, and the names of
\* these two forms are never refused as invalid.
C14_NameSyntax ==
  ReadWhole =>
    /\ MalformedNames(SourceDecl) # {}
         => (result.returned /\ result.error_code = SW_INVALID_PARAM_NAME)
    /\ (result.returned
        /\ result.error_message = "Invalid input parameter name: %s")
         => MalformedNames(SourceDecl) # {}

\* The part of it that the name check of the parser meets: the names it
\* refuses are malformed, and a malformed name without parentheses is
\* refused.
C14_RefusedAreMalformed ==
  ReadWhole =>
    /\ (\E i \in MalformedNames(SourceDecl) :
          Range(DeclaredNames(SourceDecl)[i]) \cap {"(", ")"} = {})
         => (result.returned /\ result.error_code = SW_INVALID_PARAM_NAME)
    /\ (result.returned
        /\ result.error_message = "Invalid input parameter name: %s")
         => MalformedNames(SourceDecl) # {}

\* The lattice and enumerated parameters of decl.
DeclaredVarying(decl) == decl.lattice \o decl.enumerated

\* Every declaration of decl is admissible on its own: the names are well
\* formed and differ, also when log10() is taken off, and a sequence under
\* lattice or enumerated holds two candidates or more, none an empty array,
\* and no sequence mixes numbers with arrays.
Admissible(decl) ==
  /\ MalformedNames(decl) = {}
  /\ \A i \in 1..Len(decl.fixed \o DeclaredVarying(decl)) :
       (decl.fixed \o DeclaredVarying(decl))[i].shape # "mixed"
  /\ ~HasRepeat([i \in 1..Len(DeclaredNames(decl)) |->
                   StoredName(DeclaredNames(decl)[i])])
  /\ \A i \in 1..Len(DeclaredVarying(decl)) :
       DeclaredVarying(decl)[i].shape # "scalar"
         => /\ Len(DeclaredVarying(decl)[i].cands) >= 2
            /\ \A k \in 1..Len(DeclaredVarying(decl)[i].cands) :
                 Len(DeclaredVarying(decl)[i].cands[k]) >= 1

\* The settings block that the caller asked for, if any, is in the file.
SettingsFound ==
  \/ BlockList[source.settings_block] \in {NULL, <<>>}
  \/ BlockList[source.settings_block] = SourceDecl.settings_key

\* The number of candidates of an enumerated parameter after the expansion
\* of a range.
CandidateCount(param) ==
  IF param.shape = "scalar" THEN 1
  ELSE IF param.shape = "seq" THEN Len(ExpandValues(WrittenValues(param)))
  ELSE Len(ExpandArrayValues(param.cands))

EnumeratedCounts(decl) ==
  {CandidateCount(decl.enumerated[i]) : i \in 1..Len(decl.enumerated)}

\* C15: an enumerated group is accepted exactly when all its names, scalar
\* and array together, have the same number of candidates after range
\* expansion; with two different numbers the load fails with
\* invalid-enumeration, and with one number L the group is not refused and
\* gives L records (without a lattice).
C15_EnumeratedLengths ==
  (ReadWhole /\ Admissible(SourceDecl) /\ SettingsFound) =>
    /\ Cardinality(EnumeratedCounts(SourceDecl)) > 1
         => /\ result.returned
            /\ result.error_code = SW_INVALID_ENUMERATION
            /\ ~result.ensemble
    /\ Cardinality(EnumeratedCounts(SourceDecl)) = 1
         => /\ status = "running" => result.error_code # SW_INVALID_ENUMERATION
            /\ SourceDecl.lattice = <<>>
                 => /\ result.returned
                    /\ result.error_code = SW_SUCCESS
                    /\ loaded => EnumeratedCounts(SourceDecl) = {sw_ensemble_size}

\* A refused load of a file whose enumerated names are written with three
\* numbers each, one of them a range that expands to six candidates.
C15_Witness ==
  /\ ReadWhole
  /\ Admissible(SourceDecl)
  /\ SettingsFound
  /\ result.returned
  /\ result.error_code = SW_INVALID_ENUMERATION
  /\ \A i \in 1..Len(SourceDecl.enumerated) :
       Len(SourceDecl.enumerated[i].cands) = 3
  /\ 6 \in EnumeratedCounts(SourceDecl)

\* decl declares no parameter at all.
NoParameters(decl) == Len(DeclaredNames(decl)) = 0

\* The lattice and enumerated parameters of decl that are written as a
\* sequence without any number.
EmptySequences(decl) ==
  {i \in 1..Len(DeclaredVarying(decl)) :
     /\ DeclaredVarying(decl)[i].shape # "scalar"
     /\ WrittenValues(DeclaredVarying(decl)[i]) = <<>>}

\* The declarations before the first empty sequence are admissible, so that
\* the parser gets as far as that sequence.  Fixed parameters come first in
\* the file.
AdmissibleUpTo(decl, k) ==
  Admissible([decl EXCEPT
    !.lattice = SubSeq(@, 1, IF k <= Len(@) THEN k ELSE Len(@)),
    !.enumerated = SubSeq(@, 1, IF k <= Len(decl.lattice) THEN 0
                                ELSE k - Len(decl.lattice))])

FirstEmptySequence(decl) ==
  CHOOSE k \in EmptySequences(decl) : \A i \in EmptySequences(decl) : k <= i

EmptyEnsembleError ==
  /\ result.returned
  /\ result.error_code = SW_EMPTY_ENSEMBLE
  /\ ~result.ensemble

\* C16: the load fails with the empty-ensemble error when the input
\* declares no parameter at all and when a lattice or enumerated name is
\* given an empty sequence; and every successfully loaded ensemble has at
\* least one record.
C16_NeverEmpty ==
  /\ (ReadWhole /\ SettingsFound /\ NoParameters(SourceDecl))
       => EmptyEnsembleError
  /\ (ReadWhole /\ EmptySequences(SourceDecl) # {}
      /\ AdmissibleUpTo(SourceDecl, FirstEmptySequence(SourceDecl) - 1))
       => EmptyEnsembleError
  /\ loaded => sw_ensemble_size >= 1

\* Its two error cases alone.
C16_EmptyIsRefused ==
  /\ (ReadWhole /\ SettingsFound /\ NoParameters(SourceDecl))
       => EmptyEnsembleError
  /\ (ReadWhole /\ EmptySequences(SourceDecl) # {}
      /\ AdmissibleUpTo(SourceDecl, FirstEmptySequence(SourceDecl) - 1))
       => EmptyEnsembleError

\* An ensemble that a successful load returned has no record when the number
\* of combinations is a multiple of 2^SizeWidth.
C16_EmptyLoaded ==
  /\ loaded
  /\ result.error_code = SW_SUCCESS
  /\ sw_ensemble_size = 0
  /\ ExpectedSize(yaml) > 0

\* The settings block name that the last load was called with.
SourceBlock == BlockList[source.settings_block]

\* C17: a load with the settings block name "input" fails with the
\* invalid-settings-block-name error whatever the path and the content of
\* the file, before the file is opened or parsed; a null or empty name is
\* accepted, and the load then expects and returns no settings.
C17_SettingsBlockName ==
  source # NoSource =>
    /\ SourceBlock = input_keyword
         => /\ result.returned
            /\ result.error_code = SW_INVALID_SETTINGS_BLOCK
            /\ result.error_message
                 = "Invalid settings block name: '%s' (cannot be 'input')"
            /\ ~result.ensemble /\ ~result.settings
            /\ yaml = InitData
    /\ (SourceBlock \in {NULL, <<>>} /\ result.returned)
         => /\ result.error_code
                 \notin {SW_INVALID_SETTINGS_BLOCK, SW_SETTINGS_NOT_FOUND}
            /\ ~result.settings
            /\ settings.null

\* The name "input" refused for a file that does not exist.
C17_Witness ==
  /\ source # NoSource
  /\ SourceBlock = input_keyword
  /\ ~SourceFile.exists
  /\ result.returned
  /\ result.error_code = SW_INVALID_SETTINGS_BLOCK

\* The caller configured a settings block name, which is not "input".
BlockConfigured == SourceBlock \notin {NULL, <<>>, input_keyword}

SettingsNotFound ==
  /\ result.returned
  /\ result.error_code = SW_SETTINGS_NOT_FOUND

\* C18: with a non-empty settings block name, a file that is read to its end
\* without error and without a settings block of that name fails to load
\* with settings-block-not-found; with a null or empty name that error
\* never occurs and the result carries no settings.
C18_SettingsNotFound ==
  /\ (ReadWhole /\ BlockConfigured /\ ~SettingsFound /\ Admissible(SourceDecl))
       => (SettingsNotFound /\ ~result.ensemble /\ ~result.settings)
  /\ SettingsNotFound
       => (BlockConfigured /\ ~SettingsFound)
  /\ (source # NoSource /\ SourceBlock \in {NULL, <<>>})
       => (~SettingsNotFound /\ ~result.settings)

\* The error for a file that holds a settings block of another name and
\* parameters that would load.
C18_Witness ==
  /\ ReadWhole
  /\ BlockConfigured
  /\ SourceDecl.settings_key \notin {NULL, SourceBlock}
  /\ Admissible(SourceDecl)
  /\ SettingsNotFound

\* The keys of the settings block of decl in the order of the file.
SettingKeys(decl) == [i \in 1..Len(decl.settings) |-> decl.settings[i][1]]

\* The load read the settings block that the caller named, and a key
\* appears twice in it.
DuplicateSettingRead ==
  /\ ReadWhole
  /\ BlockConfigured
  /\ SettingsFound
  /\ HasRepeat(SettingKeys(SourceDecl))

\* What a load reports for the settings block name "input".
InvalidBlockName == LoadOutcome(NoFile, input_keyword).result

\* C19 as stated: a settings block in which a key appears twice makes the
\* load fail with an error whose code differs from the code reported for an
\* invalid settings block name.
C19_DuplicateSettingDistinct ==
  DuplicateSettingRead =>
    /\ result.returned
    /\ result.error_code # SW_SUCCESS
    /\ result.error_code # InvalidBlockName.error_code

\* C19: a settings block in which a key appears twice makes the load fail
\* with the invalid-settings-block code, the code that is also reported for
\* the settings block name "input"; the message alone tells the two apart.
C19_DuplicateSetting ==
  DuplicateSettingRead =>
    /\ result.returned
    /\ result.error_code = SW_INVALID_SETTINGS_BLOCK
    /\ result.error_code = InvalidBlockName.error_code
    /\ result.error_message = "Setting %s appears more than once!"
    /\ result.error_message # InvalidBlockName.error_message
    /\ ~result.ensemble /\ ~result.settings

\* The refused load of a file with a repeated setting.
C19_Witness ==
  /\ DuplicateSettingRead
  /\ result.returned
  /\ result.error_code = SW_INVALID_SETTINGS_BLOCK

\* The candidates written for the one parameter of the file of RangeSpec.
RangeWritten == WrittenValues(DeclaredVarying(source.file)[1])

\* The values that the records of the loaded ensemble bind a to, in the
\* order of the records.
RangeLoaded == [l \in 1..Len(inputs) |-> inputs[l].params[n_a]]

\* v0 + i * v2 for i = 0 .. ceil((v1 - v0) / v2).
Arithmetic(v0, v1, v2) ==
  [i \in 1..(((v1 - v0) + v2 - 1) \div v2) + 1 |-> v0 + (i - 1) * v2]

\* The expansion with the guard as stated: v0 < v1 and (0 < v2 < v1, or
\* v1 <= 0 and 0 < v2 < (v1 - v0)/2).
StatedExpansion(v) ==
  IF /\ Len(v) = 3
     /\ v[1] < v[2]
     /\ \/ (0 < v[3] /\ v[3] < v[2])
        \/ (v[2] <= 0 /\ 0 < v[3] /\ 2 * v[3] < v[2] - v[1])
    THEN Arithmetic(v[1], v[2], v[3])
    ELSE v

\* The expansion with the second case of the guard for v1 < 0 only.
StrictExpansion(v) ==
  IF /\ Len(v) = 3
     /\ v[1] < v[2]
     /\ \/ (0 < v[3] /\ v[3] < v[2])
        \/ (v[2] < 0 /\ 0 < v[3] /\ 2 * v[3] < v[2] - v[1])
    THEN Arithmetic(v[1], v[2], v[3])
    ELSE v

\* C20: the three candidates [v0, v1, v2] of a scalar lattice or enumerated
\* parameter with v0 < v1 and (0 < v2 < v1, or v1 <= 0 and
\* 0 < v2 < (v1 - v0)/2) are replaced by v0 + i * v2 for
\* i = 0 .. ceil((v1 - v0)/v2); in every other case, and for a list of any
\* other length, the candidates are kept as written.
C20_RangeExpansion ==
  loaded => RangeLoaded = StatedExpansion(RangeWritten)

\* The same with v1 < 0 in the second case of the guard.
C20_StrictRangeExpansion ==
  loaded => RangeLoaded = StrictExpansion(RangeWritten)

\* Loaded candidates of an expanded range whose last value exceeds v1.
C20_Expanded ==
  /\ loaded
  /\ Len(RangeWritten) = 3
  /\ Len(RangeLoaded) > 3
  /\ RangeLoaded[Len(RangeLoaded)] > RangeWritten[2]

\* The scalar lattice and enumerated parameters of decl (indices into
\* DeclaredVarying) that are declared as log10(X).
Log10Scalars(decl) ==
  {i \in 1..Len(DeclaredVarying(decl)) :
     /\ DeclaredVarying(decl)[i].shape # "seqseq"
     /\ Log10Name(DeclaredVarying(decl)[i].name)}

\* The values 10^v for the exponents v written for param, ranges expanded.
Decoded(param) ==
  [k \in 1..Len(ExpandValues(WrittenValues(param))) |->
     10^(ExpandValues(WrittenValues(param))[k])]

\* Record number l (from 1) binds the inner name of param, and not its
\* written name, to one of the decoded values: for an enumerated parameter
\* to the one at the enumeration index of the record.
BindsDecoded(l, i) ==
  LET param == DeclaredVarying(SourceDecl)[i]
      X == StoredName(param.name)
  IN /\ X \in DOMAIN inputs[l].params
     /\ param.name \notin DOMAIN inputs[l].params
     /\ param.name \notin DOMAIN inputs[l].array_params
     /\ IF i > Len(SourceDecl.lattice)
          THEN inputs[l].params[X]
                 = Decoded(param)[((l - 1) % Len(Decoded(param))) + 1]
          ELSE \E k \in 1..Len(Decoded(param)) :
                 inputs[l].params[X] = Decoded(param)[k]

\* Every decoded value of a lattice parameter is bound by as many records
\* as any other.
EvenlyDecoded(i) ==
  LET param == DeclaredVarying(SourceDecl)[i]
      X == StoredName(param.name)
  IN \A k \in 1..Len(Decoded(param)) :
       Cardinality({l \in 1..Len(inputs) :
                      inputs[l].params[X] = Decoded(param)[k]})
         * Len(Decoded(param)) = Len(inputs)

\* C21: for a scalar lattice or enumerated parameter declared as log10(X)
\* every record of the loaded ensemble binds X, and no name log10(X), to
\* 10^v for the candidate v selected for the record, the candidates being
\* the written exponents after the expansion of a 3-value range.
C21_Log10Decoded ==
  (loaded /\ ReadWhole) =>
    \A i \in Log10Scalars(SourceDecl) :
      /\ \A l \in 1..Len(inputs) : BindsDecoded(l, i)
      /\ i <= Len(SourceDecl.lattice) => EvenlyDecoded(i)

\* A loaded ensemble with a lattice and an enumerated log10 parameter whose
\* exponents were written as ranges.
C21_Witness ==
  /\ loaded
  /\ ReadWhole
  /\ \E i, k \in Log10Scalars(SourceDecl) :
       /\ i <= Len(SourceDecl.lattice)
       /\ k > Len(SourceDecl.lattice)
       /\ ExpandValues(WrittenValues(DeclaredVarying(SourceDecl)[i]))
            # WrittenValues(DeclaredVarying(SourceDecl)[i])
       /\ ExpandValues(WrittenValues(DeclaredVarying(SourceDecl)[k]))
            # WrittenValues(DeclaredVarying(SourceDecl)[k])
  /\ \E l \in 1..Len(inputs) : inputs[l].params[n_k] = 10000

\* The parameters of decl whose value is an array: a sequence under fixed,
\* a sequence of arrays under lattice or enumerated.
ArrayValued(decl) ==
  SelectSeq(decl.fixed, LAMBDA p : p.shape = "seq")
    \o SelectSeq(DeclaredVarying(decl), LAMBDA p : p.shape = "seqseq")

\* C22: an array-valued parameter may not use the log10 wrapper: a file in
\* which a fixed sequence or a lattice or enumerated sequence of arrays is
\* named log10(X) fails to load with invalid-parameter-name.
C22_NoLog10Arrays ==
  (ReadWhole
   /\ \E i \in 1..Len(ArrayValued(SourceDecl)) :
        Log10Name(ArrayValued(SourceDecl)[i].name))
    => /\ result.returned
       /\ result.error_code = SW_INVALID_PARAM_NAME
       /\ ~result.ensemble

\* A loaded ensemble whose records bind an array under a name log10(X).
C22_Log10ArrayLoaded ==
  /\ loaded
  /\ Len(inputs) >= 1
  /\ \E name \in DOMAIN inputs[1].array_params : Log10Name(name)

\* s opens the log10( wrapper and does not end with ")".
UnclosedLog10(s) ==
  /\ Len(s) >= Len(log10_open)
  /\ SubSeq(s, 1, Len(log10_open)) = log10_open
  /\ s[Len(s)] # ")"

\* C23: a parameter whose name opens the log10( wrapper and does not close
\* it with a final ")" makes the load fail with invalid-parameter-name, in
\* whichever group (fixed, lattice or enumerated) it is declared.
C23_UnclosedLog10 ==
  (ReadWhole
   /\ \E i \in 1..Len(DeclaredNames(SourceDecl)) :
        UnclosedLog10(DeclaredNames(SourceDecl)[i]))
    => /\ result.returned
       /\ result.error_code = SW_INVALID_PARAM_NAME
       /\ ~result.ensemble

\* The part of it that the postprocessor enforces: an unclosed wrapper on a
\* scalar-valued lattice or enumerated parameter of a file whose enumerated
\* lists have one length is refused with "Unclosed parens in parameter %s."
C23_UnclosedVaryingScalar ==
  (/\ ReadWhole
   /\ SettingsFound
   /\ \A i \in 1..Len(DeclaredNames(SourceDecl)) :
        WellFormedName(DeclaredNames(SourceDecl)[i])
          \/ UnclosedLog10(DeclaredNames(SourceDecl)[i])
   /\ \A i, k \in 1..Len(SourceDecl.enumerated) :
        Len(SourceDecl.enumerated[i].cands) = Len(SourceDecl.enumerated[k].cands)
   /\ \E i \in 1..Len(DeclaredVarying(SourceDecl)) :
        /\ DeclaredVarying(SourceDecl)[i].shape = "seq"
        /\ UnclosedLog10(DeclaredVarying(SourceDecl)[i].name))
    => /\ result.returned
       /\ result.error_code = SW_INVALID_PARAM_NAME
       /\ result.error_message = "Unclosed parens in parameter %s."
       /\ ~result.ensemble

\* A loaded ensemble whose records bind a scalar under an unclosed name.
C23_UnclosedLoaded ==
  /\ loaded
  /\ Len(inputs) >= 1
  /\ \E name \in DOMAIN inputs[1].params : UnclosedLog10(name)

\* The lattice parameters of decl that are written as a sequence.
LatticeSequences(decl) ==
  {i \in 1..Len(decl.lattice) : decl.lattice[i].shape # "scalar"}

\* What record l binds under the name of param: the scalar, if any, and the
\* array, if any.
BoundTo(l, param) ==
  <<IF StoredName(param.name) \in DOMAIN inputs[l].params
      THEN {inputs[l].params[StoredName(param.name)]} ELSE {},
    IF param.name \in DOMAIN inputs[l].array_params
      THEN {inputs[l].array_params[param.name]} ELSE {}>>

\* The number of candidates that the records of the ensemble take for param.
CandidatesTaken(param) ==
  Cardinality({BoundTo(l, param) : l \in 1..Len(inputs)})

SingleValueRefused ==
  /\ result.returned
  /\ result.error_message
       = "Lattice or enumerated parameter %s has only a single value."

NoSingleElement(decl) ==
  \A i \in 1..Len(DeclaredVarying(decl)) :
    DeclaredVarying(decl)[i].shape # "scalar"
      => Len(DeclaredVarying(decl)[i].cands) # 1

\* C24: a name declared under lattice with a sequence of exactly one element
\* is rejected (the load fails, no ensemble); a lattice sequence with two or
\* more elements is accepted as a varying dimension with as many candidates
\* as it has elements.
C24_LatticeSequenceLength ==
  ReadWhole =>
    \A i \in LatticeSequences(SourceDecl) :
      /\ Len(SourceDecl.lattice[i].cands) = 1
           => (result.returned /\ ~result.ensemble
               /\ result.error_code # SW_SUCCESS)
      /\ (Len(SourceDecl.lattice[i].cands) >= 2 /\ NoSingleElement(SourceDecl))
           => ~SingleValueRefused
      /\ (Len(SourceDecl.lattice[i].cands) >= 2 /\ loaded)
           => CandidatesTaken(SourceDecl.lattice[i])
                = Cardinality(Range(SourceDecl.lattice[i].cands))

\* The part of it that holds: a one-element sequence is rejected, and where
\* every sequence of the file holds numbers only or arrays only, a longer
\* one is not refused as single-valued and gives the dimension its
\* candidates, those of the range where the sequence is expanded as one.
C24_HomogeneousLattice ==
  ReadWhole =>
    \A i \in LatticeSequences(SourceDecl) :
      /\ Len(SourceDecl.lattice[i].cands) = 1
           => (result.returned /\ ~result.ensemble
               /\ result.error_code # SW_SUCCESS)
      /\ (/\ Len(SourceDecl.lattice[i].cands) >= 2
          /\ NoSingleElement(SourceDecl)
          /\ \A k \in 1..Len(DeclaredVarying(SourceDecl)) :
               DeclaredVarying(SourceDecl)[k].shape # "mixed")
           => /\ ~SingleValueRefused
              /\ (loaded /\ inputs # <<>>)
                   => CandidatesTaken(SourceDecl.lattice[i])
                        = CandidateCount(SourceDecl.lattice[i])

\* A two-element lattice sequence of a number and an array that is refused
\* as single-valued.
C24_TwoRefused ==
  /\ ReadWhole
  /\ SingleValueRefused
  /\ NoSingleElement(SourceDecl)
  /\ LatticeSequences(SourceDecl) # {}

\* C25: in a loaded ensemble every parameter name has exactly one shape: no
\* record binds a name both as a scalar and as an array, and all records
\* bind the same scalar names and the same array names.
C25_OneShape ==
  loaded =>
    /\ \A l \in 1..Len(inputs) :
         DOMAIN inputs[l].params \cap DOMAIN inputs[l].array_params = {}
    /\ \A l, k \in 1..Len(inputs) :
         /\ DOMAIN inputs[l].params = DOMAIN inputs[k].params
         /\ DOMAIN inputs[l].array_params = DOMAIN inputs[k].array_params

\* The part of it that holds: all records bind the same scalar names and
\* the same array names.
C25_SameNames ==
  loaded =>
    \A l, k \in 1..Len(inputs) :
      /\ DOMAIN inputs[l].params = DOMAIN inputs[k].params
      /\ DOMAIN inputs[l].array_params = DOMAIN inputs[k].array_params

\* A loaded ensemble in which every record binds one name both ways.
C25_BothShapes ==
  /\ loaded
  /\ Len(inputs) >= 2
  /\ \A l \in 1..Len(inputs) :
       DOMAIN inputs[l].params \cap DOMAIN inputs[l].array_params # {}

\* The load that has just returned repeats the load whose result the caller
\* keeps: the same file and the same settings block name.
SameLoad ==
  /\ held.kept
  /\ result.returned
  /\ source = held.source

\* The two calls met a record count of 0, where the result is what malloc
\* makes of a request of zero bytes.
ZeroRecords ==
  /\ size = 0 /\ held.size = 0
  /\ {result.error_code, held.result.error_code}
       \subseteq {SW_SUCCESS, SW_ENSEMBLE_TOO_LARGE}

SameEnsembles ==
  SameLoad =>
    /\ result = held.result \/ ZeroRecords
    /\ (loaded /\ held.loaded)
         => /\ size = held.size
            /\ inputs = held.inputs
            /\ settings = held.settings

\* A step on one of the two ensembles leaves what the other holds as it is.
Separate ==
  /\ (held.kept /\ held'.kept /\ held' # held)
       => UNCHANGED <<loaded, size, inputs, outputs, settings>>
  /\ (loaded /\ loaded' /\ outputs' # outputs) => UNCHANGED held

ModuleWritten ==
  /\ lookup.op = "sw_ensemble_write"
  /\ lookup.found

\* The names of the bindings ascend.
Ascending(bindings) ==
  \A i \in 1..(Len(bindings) - 1) :
    strcmp_less(bindings[i][1], bindings[i + 1][1])

\* The bindings give every name that a record holds once, with one entry for
\* every record in the order of the records: what the record holds.
ScalarsOfRecords(bindings, tables) ==
  /\ {bindings[i][1] : i \in 1..Len(bindings)}
       = UNION {DOMAIN tables[l] : l \in 1..Len(tables)}
  /\ \A i \in 1..Len(bindings) :
       /\ Len(bindings[i][2]) = Len(tables)
       /\ \A l \in 1..Len(tables) :
            /\ bindings[i][1] \in DOMAIN tables[l]
            /\ bindings[i][2][l] = Tok(tables[l][bindings[i][1]])

ArraysOfRecords(bindings, tables) ==
  /\ {bindings[i][1] : i \in 1..Len(bindings)}
       = UNION {DOMAIN tables[l] : l \in 1..Len(tables)}
  /\ \A i \in 1..Len(bindings) :
       /\ Len(bindings[i][2]) = Len(tables)
       /\ \A l \in 1..Len(tables) :
            /\ bindings[i][1] \in DOMAIN tables[l]
            /\ bindings[i][2][l]
                 = [k \in 1..Len(tables[l][bindings[i][1]]) |->
                      Tok(tables[l][bindings[i][1]][k])]

InputsWritten ==
  /\ Ascending(lookup.value.settings)
  /\ Ascending(lookup.value.input)
  /\ Ascending(lookup.value.array_input)
  /\ settings.null => lookup.value.settings = <<>>
  /\ ~settings.null =>
       /\ Len(lookup.value.settings) = Cardinality(DOMAIN settings.params)
       /\ \A i \in 1..Len(lookup.value.settings) :
            /\ lookup.value.settings[i][1] \in DOMAIN settings.params
            /\ lookup.value.settings[i][2]
                 = settings.params[lookup.value.settings[i][1]]
  /\ ScalarsOfRecords(lookup.value.input,
                      [l \in 1..size |-> inputs[l].params])
  /\ ArraysOfRecords(lookup.value.array_input,
                     [l \in 1..size |-> inputs[l].array_params])

OutputsWritten ==
  /\ Ascending(lookup.value.output)
  /\ Ascending(lookup.value.array_output)
  /\ ScalarsOfRecords(lookup.value.output,
                      [l \in 1..size |-> outputs[l].metrics])
  /\ ArraysOfRecords(lookup.value.array_output,
                     [l \in 1..size |-> outputs[l].array_metrics])

\* C27: sw_ensemble_write emits, in each category (settings, scalar inputs,
\* array inputs, scalar outputs, array outputs), one binding per name in
\* ascending order of the names, and the binding of an input or output name
\* is a list with one entry per record in record order, the i-th being the
\* value of record i, whatever outputs were set on the records before.
C27_ModuleWritten ==
  /\ lookup.op = "sw_ensemble_write" => status # "crashed"
  /\ ModuleWritten => (InputsWritten /\ OutputsWritten)

\* The part of it that holds: the settings and the inputs are written so,
\* and the outputs as well when every record holds the same output names.
C27_CompleteOutputsWritten ==
  ModuleWritten =>
    /\ InputsWritten
    /\ (\A l \in 1..size :
          /\ DOMAIN outputs[l].metrics = DOMAIN outputs[1].metrics
          /\ DOMAIN outputs[l].array_metrics = DOMAIN outputs[1].array_metrics)
         => OutputsWritten

\* A module written for an ensemble with three scalar inputs.
C27_Written ==
  /\ ModuleWritten
  /\ Len(lookup.value.input) >= 3
  /\ Len(lookup.value.array_input) >= 1
  /\ Len(lookup.value.settings) >= 1

LatticePointAssigned == lookup.op = "assign_lattice_params"

\* C28: for every number m of lattice parameters from 1 to 7, all numbers of
\* values n_1 .. n_m (each 2 or more) and every lattice point l below their
\* product, the indices that the loop of assign_lattice_params computes
\* (from the last dimension to the second j_i = L mod n_i, L = L div n_i,
\* then j_1 = L) are the indices of the formula that build_lattice_ensemble
\* wrote out for that m, and 0 <= j_i < n_i for every i.
C28_IndicesAsLegacy ==
  LatticePointAssigned =>
    /\ lookup.value.j = lookup.value.legacy
    /\ Len(lookup.value.j) = Len(lookup.value.n)
    /\ \A i \in 1..Len(lookup.value.n) :
         /\ 0 <= lookup.value.j[i]
         /\ lookup.value.j[i] < lookup.value.n[i]

\* A point of a lattice of seven parameters of two and of three values at
\* which the first index is 1 and the last is 2.
C28_Witness ==
  /\ LatticePointAssigned
  /\ Len(lookup.value.n) = 7
  /\ Range(lookup.value.n) = Cardinalities
  /\ lookup.value.j[1] = 1
  /\ lookup.value.j[7] = 2
  /\ lookup.value.j[4] = 0

CloseName(param) ==
  IF UnclosedLog10(param.name)
    THEN [param EXCEPT !.name = param.name \o <<")">>]
    ELSE param

\* decl with the closing parenthesis put to the names that lack it.
CloseNames(decl) ==
  [decl EXCEPT !.fixed = [i \in 1..Len(decl.fixed) |-> CloseName(decl.fixed[i])],
               !.lattice = [i \in 1..Len(decl.lattice) |-> CloseName(decl.lattice[i])],
               !.enumerated = [i \in 1..Len(decl.enumerated) |->
                                 CloseName(decl.enumerated[i])]]

\* The events of the file are handled without an error: its declarations are
\* admissible but for unclosed log10( names, which the parser lets pass.
HandledWithoutError == ReadWhole /\ Admissible(CloseNames(SourceDecl))

\* A lattice or enumerated sequence of numbers has an unclosed name: the
\* postprocessor records "Unclosed parens in parameter %s."
UnclosedInPostprocess ==
  \E i \in 1..Len(DeclaredVarying(SourceDecl)) :
    /\ DeclaredVarying(SourceDecl)[i].shape = "seq"
    /\ UnclosedLog10(DeclaredVarying(SourceDecl)[i].name)

UnclosedReturned ==
  /\ result.returned
  /\ result.error_code = SW_INVALID_PARAM_NAME
  /\ result.error_message = "Unclosed parens in parameter %s."
  /\ ~result.ensemble

\* C29: the first validation error aborts the load and is the error
\* returned; no later step (postprocessing, the validation of the
\* enumerated lengths, the building of the ensemble) replaces its code or
\* its message. The steps after the event loop: a missing settings block
\* is returned whatever the parameters are, and an unclosed log10( name met
\* by the postprocessor is returned whatever the enumerated lengths are.
C29_FirstErrorReturned ==
  HandledWithoutError =>
    /\ (BlockConfigured /\ ~SettingsFound)
         => (SettingsNotFound /\ ~result.ensemble)
    /\ (SettingsFound /\ UnclosedInPostprocess) => UnclosedReturned

\* The part of it that holds: the missing settings block is returned
\* whatever follows, and the unclosed name where the enumerated sequences
\* have one length.
C29_FirstErrorBeforeValidation ==
  HandledWithoutError =>
    /\ (BlockConfigured /\ ~SettingsFound)
         => (SettingsNotFound /\ ~result.ensemble)
    /\ (/\ SettingsFound
        /\ UnclosedInPostprocess
        /\ \A i, k \in 1..Len(SourceDecl.enumerated) :
             Len(SourceDecl.enumerated[i].cands)
               = Len(SourceDecl.enumerated[k].cands))
         => UnclosedReturned

\* The error of the enumerated lengths returned for a file with an unclosed
\* lattice name.
C29_Replaced ==
  /\ HandledWithoutError
  /\ SettingsFound
  /\ UnclosedInPostprocess
  /\ result.returned
  /\ result.error_code = SW_INVALID_ENUMERATION

\* The context flags of the parse state machine that are set.
ContextFlags(state) ==
  {f \in {"parsing_settings", "parsing_fixed_params", "parsing_lattice_params",
          "parsing_enumerated_params"} : state[f]}

\* At most one context flag is set.
OneContext == Parsing => Cardinality(ContextFlags(parser.state)) <= 1

\* The mappings that are open before event number k of events.
OpenMappings(events, k) ==
  Cardinality({i \in 1..(k - 1) : events[i].type = YAML_MAPPING_START_EVENT})
    - Cardinality({i \in 1..(k - 1) : events[i].type = YAML_MAPPING_END_EVENT})

\* Event number k is a scalar of the top-level mapping, outside the block
\* that a key of it opens.  The values of the top-level mapping of every
\* file here are mappings, so such a scalar is a key.
TopLevelKey(events, k) ==
  /\ events[k].type = YAML_SCALAR_EVENT
  /\ OpenMappings(events, k) = 1

\* The iteration on the event before the next one set parsing_settings.
SettingsEntered ==
  /\ Parsing
  /\ ~parser.state.parsing_settings
  /\ parser'.state.parsing_settings

\* The event of the iteration is a top-level key equal to the configured
\* settings block name.
BySettingsKey ==
  /\ TopLevelKey(ParserEvents, parser.next)
  /\ ParserEvents[parser.next].value = BlockList[parser.settings_block]

\* C30: in every state of the parse state machine at most one of the flags
\* parsing_settings, parsing_fixed_params, parsing_lattice_params and
\* parsing_enumerated_params is set, and the settings context is entered
\* only by a mapping key equal to the configured settings block name that
\* occurs outside any block, never by a scalar inside the input block.
C30_OneContext ==
  /\ []OneContext
  /\ [][SettingsEntered => BySettingsKey]_vars

\* What holds of C30: at most one of the three group flags is set, and the
\* settings context is entered only by a scalar equal to the configured
\* settings block name, wherever it occurs.
C30_OneGroup ==
  /\ [](Parsing =>
          Cardinality(ContextFlags(parser.state) \ {"parsing_settings"}) <= 1)
  /\ [][SettingsEntered =>
          /\ ParserEvents[parser.next].type = YAML_SCALAR_EVENT
          /\ ParserEvents[parser.next].value = BlockList[parser.settings_block]]_vars

\* A parameter name inside the fixed group has set parsing_settings.
C30_SettingsInsideFixed ==
  /\ Parsing
  /\ parser.state.parsing_settings
  /\ parser.state.parsing_fixed_params
  /\ parser.state.parsing_input

\* The sequences that are open before event number k of events.
OpenSequences(events, k) ==
  Cardinality({i \in 1..(k - 1) : events[i].type = YAML_SEQUENCE_START_EVENT})
    - Cardinality({i \in 1..(k - 1) : events[i].type = YAML_SEQUENCE_END_EVENT})

\* The key of the mapping of depth d that encloses event number k, which
\* lies deeper than d: the scalar before the last mapping start at depth d.
EnclosingKey(events, k, d) ==
  LET starts == {i \in 2..(k - 1) :
                   /\ events[i].type = YAML_MAPPING_START_EVENT
                   /\ OpenMappings(events, i) = d}
      last == CHOOSE i \in starts : \A m \in starts : m <= i
  IN IF starts = {} THEN NULL ELSE events[last - 1].value

\* The group of the input block whose parameters event number k belongs to,
\* by the place of the event in the file; NULL outside the groups.
GroupOfEvent(events, k) ==
  IF OpenMappings(events, k) = 3
       /\ EnclosingKey(events, k, 1) = input_keyword
       /\ EnclosingKey(events, k, 2)
            \in {fixed_keyword, lattice_keyword, enumerated_keyword}
    THEN EnclosingKey(events, k, 2)
    ELSE NULL

\* Event number k opens a mapping as the value of a parameter, directly or
\* inside its sequence.
MappingAsValue(events, k) ==
  /\ events[k].type = YAML_MAPPING_START_EVENT
  /\ GroupOfEvent(events, k) # NULL

\* Event number k opens a sequence inside an array of a sequence of arrays.
SequenceInArray(events, k) ==
  /\ events[k].type = YAML_SEQUENCE_START_EVENT
  /\ GroupOfEvent(events, k) # NULL
  /\ OpenSequences(events, k) >= 2

\* Event number k opens a sequence inside the sequence of a fixed parameter.
SequenceInFixedSequence(events, k) ==
  /\ events[k].type = YAML_SEQUENCE_START_EVENT
  /\ GroupOfEvent(events, k) = fixed_keyword
  /\ OpenSequences(events, k) = 1

TooDeep(events, k) ==
  \/ MappingAsValue(events, k)
  \/ SequenceInArray(events, k)
  \/ SequenceInFixedSequence(events, k)

\* The iteration of the loop that is taken handles an event that nests a
\* parameter value too deep.
HandlesTooDeep ==
  /\ Parsing
  /\ parser'.next = parser.next + 1
  /\ TooDeep(ParserEvents, parser.next)

\* parse_yaml returns after the iteration on an event that nests too deep.
ReturnsFromTooDeep ==
  /\ Parsing
  /\ parser.next > 1
  /\ TooDeep(ParserEvents, parser.next - 1)
  /\ parser' = NoParser

RefusedValue(data) == data.error_code = SW_INVALID_PARAM_VALUE

\* No scalar of the input block of the file equals the settings block name.
NoSettingsNameInInput(events, block) ==
  \A k \in 1..Len(events) :
    (events[k].type = YAML_SCALAR_EVENT /\ events[k].value = block)
      => OpenMappings(events, k) = 1

\* C31: a mapping start while a parameter value is pending (directly or
\* inside its sequence), a sequence start inside a sequence of sequences and
\* a sequence start inside the sequence of a fixed parameter each set
\* SW_INVALID_PARAM_VALUE in the iteration that handles the event, and the
\* load returns that error and no ensemble.
C31_NoDeeperNesting ==
  /\ [][HandlesTooDeep
          => (parser'.fault = "none" /\ RefusedValue(parser'.data))]_vars
  /\ [][ReturnsFromTooDeep
          => /\ status' = "running"
             /\ result'.error_code = SW_INVALID_PARAM_VALUE
             /\ ~result'.ensemble]_vars

\* What holds of C31: the same for the files in which the settings block
\* name is no scalar of the input block.
C31_NoDeeperNestingOfNames ==
  /\ [][(HandlesTooDeep
         /\ NoSettingsNameInInput(ParserEvents, BlockList[parser.settings_block]))
          => (parser'.fault = "none" /\ RefusedValue(parser'.data))]_vars
  /\ [][(ReturnsFromTooDeep
         /\ NoSettingsNameInInput(ParserEvents, BlockList[parser.settings_block]))
          => /\ status' = "running"
             /\ result'.error_code = SW_INVALID_PARAM_VALUE
             /\ ~result'.ensemble]_vars

\* The mapping that is the value of the fixed parameter named like the
\* settings block has been passed without an error.
C31_MappingPassed ==
  /\ Parsing
  /\ parser.next > 1
  /\ MappingAsValue(ParserEvents, parser.next - 1)
  /\ parser.data.error_code = SW_SUCCESS
  /\ parser.fault = "none"

RECURSIVE IsTopLevelKey(_, _)
\* Event number k is a key of the top-level mapping: a scalar of that mapping
\* that follows the start of the mapping, the end of a value, or a scalar
\* that is a value.
IsTopLevelKey(events, k) ==
  /\ k > 1
  /\ events[k].type = YAML_SCALAR_EVENT
  /\ OpenMappings(events, k) = 1
  /\ OpenSequences(events, k) = 0
  /\ \/ events[k - 1].type \in {YAML_MAPPING_START_EVENT, YAML_MAPPING_END_EVENT,
                                YAML_SEQUENCE_END_EVENT}
     \/ events[k - 1].type = YAML_SCALAR_EVENT /\ ~IsTopLevelKey(events, k - 1)

\* The top-level key input comes before event number k.
AfterInput(events, k) ==
  \E i \in 1..(k - 1) :
    IsTopLevelKey(events, i) /\ events[i].value = input_keyword

\* Event number k is a top-level key that is neither input nor the settings
\* block name.
UnknownTopLevelKey(events, k, block) ==
  /\ IsTopLevelKey(events, k)
  /\ events[k].value \notin {input_keyword, block}

\* Event number k is a key of the input block that is no group and not the
\* settings block name.
UnknownSubKey(events, k, block) ==
  /\ events[k].type = YAML_SCALAR_EVENT
  /\ OpenMappings(events, k) = 2
  /\ OpenSequences(events, k) = 0
  /\ EnclosingKey(events, k, 1) = input_keyword
  /\ events[k - 1].type \in {YAML_MAPPING_START_EVENT, YAML_MAPPING_END_EVENT}
  /\ events[k].value \notin {fixed_keyword, lattice_keyword,
                             enumerated_keyword, block}

\* The top-level key whose entry event number k belongs to: the last one at
\* or before k; 0 if none.
TopLevelKeyOf(events, k) ==
  LET keys == {i \in 1..k : IsTopLevelKey(events, i)}
  IN IF keys = {} THEN 0 ELSE CHOOSE i \in keys : \A m \in keys : m <= i

\* The entry of the top-level key at event number key holds a sequence.
SequenceInEntry(events, key) ==
  \E i \in key..Len(events) :
    /\ events[i].type = YAML_SEQUENCE_START_EVENT
    /\ TopLevelKeyOf(events, i) = key

\* Event number k is the key or lies in the value of an unknown top-level
\* key that comes before the input block and whose value holds no sequence.
SkippedEvent(events, k, block) ==
  LET key == TopLevelKeyOf(events, k)
  IN /\ key > 0
     /\ UnknownTopLevelKey(events, key, block)
     /\ ~AfterInput(events, key)
     /\ ~SequenceInEntry(events, key)
     /\ \/ k = key
        \/ OpenMappings(events, k) >= 2
        \/ k = key + 1 /\ events[k].type = YAML_SCALAR_EVENT
     /\ events[k].type = YAML_SCALAR_EVENT
          => events[k].value \notin {input_keyword, block}

RECURSIVE WithoutSkipped(_, _, _)
\* The events from number k on without those of the unknown top-level keys
\* before the input block.
WithoutSkipped(events, k, block) ==
  IF k > Len(events) THEN <<>>
  ELSE (IF SkippedEvent(events, k, block) THEN <<>> ELSE <<events[k]>>)
       \o WithoutSkipped(events, k + 1, block)

HasSkipped(events, block) ==
  \E k \in 1..Len(events) : SkippedEvent(events, k, block)

ParserBlock == BlockList[parser.settings_block]

\* The iteration that is taken handles the event e of the file.
Handles(e) == Parsing /\ parser'.next = parser.next + 1 /\ e

\* parse_yaml returns after the iteration on the event e.
ReturnsFrom(e) == Parsing /\ parser.next > 1 /\ parser' = NoParser /\ e

RefusedKey(data) == data.error_code = SW_INVALID_PARAM_TYPE

ParsedEvents == ParseFileList[source.file].events
ParsedBlock == BlockList[source.settings_block]

ArraysWritten == DeclaredVarying(source.file)[1].cands

\* The arrays that the records of the loaded ensemble bind a to, in the
\* order of the records.
ArraysLoaded == [l \in 1..Len(inputs) |-> inputs[l].array_params[n_a]]

\* The range guard on a triple, as it is stated for scalars.
StatedGuard(v0, v1, v2) ==
  /\ v0 < v1
  /\ \/ (0 < v2 /\ v2 < v1)
     \/ (v1 <= 0 /\ 0 < v2 /\ 2 * v2 < v1 - v0)

\* The guard of the array positions that have a step above zero.
PositiveStepGuard(v0, v1, v2) == 0 < v2 /\ v0 < v1 /\ v2 < v1

ExpansionCount(v0, v1, v2) == (((v1 - v0) + v2 - 1) \div v2) + 1

SameLengths(arrays) ==
  Len(arrays[1]) = Len(arrays[2]) /\ Len(arrays[1]) = Len(arrays[3])

\* The least of the numbers of the set counts.
Least(counts) == CHOOSE c \in counts : \A d \in counts : c <= d

\* The expansion of three candidate arrays of equal length whose triple
\* passes at every position; the arrays as written otherwise.
ExpandedArrays(arrays, Passes(_, _, _)) ==
  IF /\ Len(arrays) = 3
     /\ SameLengths(arrays)
     /\ Len(arrays[1]) > 0
     /\ \A p \in 1..Len(arrays[1]) : Passes(arrays[1][p], arrays[2][p], arrays[3][p])
    THEN LET c == Least({ExpansionCount(arrays[1][p], arrays[2][p], arrays[3][p]) :
                           p \in 1..Len(arrays[1])})
         IN [i \in 1..c |->
               [p \in 1..Len(arrays[1]) |-> arrays[1][p] + (i - 1) * arrays[3][p]]]
    ELSE arrays

\* C33: three candidate arrays of equal length whose triple fails the range
\* guard at any position, a step of zero or below included, are kept as
\* written; if every position passes they are replaced by c arrays, c the
\* least expansion count of the positions, with val0_p + i * val2_p at
\* position p of array i; three arrays of unequal length are kept.
C33_ArrayRangeExpansion ==
  loaded => ArraysLoaded = ExpandedArrays(ArraysWritten, StatedGuard)

\* Some position has a step of zero or below.
SomeStepNotPositive(arrays) ==
  /\ Len(arrays) = 3
  /\ SameLengths(arrays)
  /\ \E p \in 1..Len(arrays[1]) : arrays[3][p] <= 0

\* What holds of C33: with the guard val2 > 0, val0 < val1, val2 < val1 the
\* arrays are expanded as stated when no position has a step of zero or
\* below; arrays of unequal length, and fewer or more than three arrays, are
\* kept as written.
C33_PositiveSteps ==
  (loaded /\ ~SomeStepNotPositive(ArraysWritten))
    => ArraysLoaded = ExpandedArrays(ArraysWritten, PositiveStepGuard)

\* The arrays [0, 5], [10, 6], [2, 0] have been expanded to six arrays.
C33_ExpandedPastZeroStep ==
  /\ loaded
  /\ SomeStepNotPositive(ArraysWritten)
  /\ Len(ArraysLoaded) > 3

\* The scalar rule of postprocess_params on the triple at the one position
\* of three candidate arrays of length 1.
ScalarRule(arrays) ==
  ExpandValues(<<arrays[1][1], arrays[2][1], arrays[3][1]>>)

OnePosition(arrays) ==
  Len(arrays) = 3 /\ \A i \in 1..3 : Len(arrays[i]) = 1

\* C34: the guard and the count of postprocess_array_params on the triple
\* of a position are those of postprocess_params on the same triple as
\* scalar candidates: three arrays of one element are expanded exactly when
\* the three scalars are, to the same number of candidates with the same
\* values, ranges with an upper bound of zero or below included.
C34_SameRuleAsScalars ==
  (loaded /\ OnePosition(ArraysWritten))
    => [l \in 1..Len(ArraysLoaded) |-> ArraysLoaded[l][1]]
         = ScalarRule(ArraysWritten)

\* What holds of C34: the two rules agree on every triple with an upper
\* bound above zero.
C34_SameRuleAboveZero ==
  (loaded /\ OnePosition(ArraysWritten) /\ ArraysWritten[2][1] > 0)
    => [l \in 1..Len(ArraysLoaded) |-> ArraysLoaded[l][1]]
         = ScalarRule(ArraysWritten)

\* Three arrays of one element are kept where the scalar rule expands.
C34_KeptBelowZero ==
  /\ loaded
  /\ OnePosition(ArraysWritten)
  /\ Len(ArraysLoaded) = 3
  /\ Len(ScalarRule(ArraysWritten)) > 3

\* sw_load_ensemble returns in this step, after the loop of parse_yaml.
Returns == Parsing /\ parser' = NoParser

\* The tables of the fixed parameters in data.
FixedTables(data) ==
  [fixed_input |-> data.fixed_input, fixed_array_input |-> data.fixed_array_input]

\* Every record binds every name of the fixed tables to what the table
\* holds for it: a scalar to its number, an array to its array.
FixedAsParsed(data, records) ==
  \A l \in 1..Len(records) :
    /\ \A name \in DOMAIN data.fixed_input :
         /\ name \in DOMAIN records[l].params
         /\ <<records[l].params[name]>> = data.fixed_input[name]
    /\ \A name \in DOMAIN data.fixed_array_input :
         /\ name \in DOMAIN records[l].array_params
         /\ <<records[l].array_params[name]>> = data.fixed_array_input[name]

\* The fixed sequences of the file that the loop of parse_yaml has stored.
StoredFixedSequences(decl, data) ==
  {i \in 1..Len(decl.fixed) :
     /\ decl.fixed[i].shape = "seq"
     /\ decl.fixed[i].name \in DOMAIN data.fixed_array_input}

\* C35: the postprocessing of parse_yaml leaves the tables of the fixed
\* parameters as the loop over the events has filled them, and every record
\* of the ensemble binds every fixed name to the value parsed for it; a
\* fixed sequence is bound to the array of its numbers as written, also
\* when its three numbers satisfy the range guard.
C35_FixedUnchanged ==
  [][Returns =>
       /\ FixedTables(yaml') = FixedTables(parser.data)
       /\ loaded' =>
            /\ FixedAsParsed(parser.data, inputs')
            /\ \A i \in StoredFixedSequences(ParseFileList[parser.file].decl,
                                             parser.data) :
                 \A l \in 1..Len(inputs') :
                   inputs'[l].array_params[ParseFileList[parser.file].decl.fixed[i].name]
                     = WrittenValues(ParseFileList[parser.file].decl.fixed[i])]_vars

\* An ensemble whose lattice range was expanded and whose records bind a
\* fixed name to the three numbers of a range, as written.
C35_Witness ==
  /\ loaded
  /\ source # NoSource
  /\ Len(inputs) > 3
  /\ \E i \in 1..Len(ParseFileList[source.file].decl.fixed) :
       LET param == ParseFileList[source.file].decl.fixed[i]
       IN /\ param.shape = "seq"
          /\ Len(param.cands) = 3
          /\ ExpandValues(WrittenValues(param)) # WrittenValues(param)
          /\ \A l \in 1..Len(inputs) :
               /\ param.name \in DOMAIN inputs[l].array_params
               /\ inputs[l].array_params[param.name] = WrittenValues(param)

\* The load got as far as the allocation of the records in build_ensemble:
\* parse_yaml returned no error, and the file declares a parameter and no
\* more than seven lattice names.
ReachedAllocation ==
  /\ result.returned
  /\ status = "running"
  /\ yaml.error_code = SW_SUCCESS
  /\ NumFixedParams(yaml) + NumLatticeParams(yaml) + NumEnumeratedParams(yaml) > 0
  /\ NumLatticeParams(yaml) <= MaxLatticeParams
  /\ ReadWhole
  /\ SettingsFound

TooLargeError ==
  /\ result.error_code = SW_ENSEMBLE_TOO_LARGE
  /\ ~result.ensemble
  /\ ~loaded

\* C36: when the product of the lattice cardinalities and the enumeration
\* length exceeds what size_t can hold, the load fails with
\* ensemble-too-large; no ensemble of the product modulo 2^SizeWidth is
\* built and returned.
C36_TooLargeRefused ==
  (ReachedAllocation /\ ExpectedSize(yaml) >= Pow2(SizeWidth)) => TooLargeError

\* What holds of C36: a count that size_t can hold and whose records malloc
\* cannot allocate is refused with ensemble-too-large.
C36_AllocationRefused ==
  (ReachedAllocation /\ ExpectedSize(yaml) < Pow2(SizeWidth)
     /\ MallocFails(ExpectedSize(yaml)))
    => TooLargeError

\* An ensemble of four records was returned for 2 * 6 * 10923 lattice
\* points.
C36_Wrapped ==
  /\ ReachedAllocation
  /\ loaded
  /\ ExpectedSize(yaml) = 2 * 6 * 10923
  /\ sw_ensemble_size = 4

\* The load of 25000 lattice points was refused.
C36_Refused ==
  /\ ReachedAllocation
  /\ ExpectedSize(yaml) < Pow2(SizeWidth)
  /\ MallocFails(ExpectedSize(yaml))
  /\ TooLargeError

\* The event loop of parse_yaml on the file and the settings block name of
\* the last load ended without an error and without a fault: the parser
\* accepted the input.
ParserAccepted ==
  /\ source # NoSource
  /\ BlockList[source.settings_block] # input_keyword
  /\ ParseFileList[source.file].exists
  /\ LET p == ParseEvents(ParseFileList[source.file].events, 1,
                          Len(ParseFileList[source.file].events),
                          Step(InitState(BlockList[source.settings_block]),
                               InitData))
     IN p.fault = "none" /\ p.data.error_code = SW_SUCCESS

\* The process died in the load on assert(ret == 1): the parser accepted the
\* input, and the lattice has fewer dimensions than the number at which
\* assign_lattice_params gives up.
DiedBindingTwice ==
  /\ status = "aborted"
  /\ ParserAccepted
  /\ Cardinality(DOMAIN yaml.lattice_input) < 8

\* C37: after the parser accepted an input, no assertion ret == 1 fails in
\* the postprocessor or in the construction of the records: no name is bound
\* twice in one record and none is produced twice in one group.
C37_NamesBoundOnce == ~DiedBindingTwice

\* The iteration at hand is on a sequence-end event, outside an inner array
\* sequence and outside the fixed group: the branch of the handler that
\* looks the current parameter up.
AtLookupOfSequenceEnd ==
  /\ Parsing
  /\ ~LoopEnded
  /\ ParserEvents[parser.next].type = YAML_SEQUENCE_END_EVENT
  /\ ~parser.state.parsing_input_array_sequence
  /\ ~parser.state.parsing_fixed_params

\* C38: whenever the parser handles a sequence-end event outside an inner
\* array sequence and outside the fixed group, a parameter name is pending
\* (current_param is set), wherever the sequence stands in the file.
C38_NamePending ==
  AtLookupOfSequenceEnd => parser.state.current_param # NULL

\* The lookup at a sequence end was made with a null name and reported the
\* empty ensemble.
C38_LookupOfNull ==
  /\ Parsing
  /\ parser.next > 1
  /\ ParserEvents[parser.next - 1].type = YAML_SEQUENCE_END_EVENT
  /\ parser.data.error_code = SW_EMPTY_ENSEMBLE
  /\ parser.data.param_names = {}

\* The lookup at a sequence end was made with a null name in a table with
\* buckets: the process died.
C38_LookupOfNullDied ==
  /\ Parsing
  /\ parser.next > 1
  /\ ParserEvents[parser.next - 1].type = YAML_SEQUENCE_END_EVENT
  /\ parser.fault = "crashed"

\* C39: every loop `while (sw_ensemble_next(...))`, every call of
\* Ensemble::process among them, visits the records from record 0 on, each
\* once: its k-th call hands out record k - 1, and the call that follows
\* the last record returns false - also after a loop that was left early.
C39_EveryPassFromZero ==
  [][sw_ensemble_next =>
       IF calls < sw_ensemble_size
         THEN next_ret' /\ in_handle' = calls /\ out_handle' = calls
         ELSE ~next_ret']_vars

\* C39, for the loops that follow a load or a loop that ran until next
\* returned false: they visit every record once, from record 0 on.
C39_PassAfterCompletedPass ==
  [][(sw_ensemble_next /\ position = calls) =>
       IF calls < sw_ensemble_size
         THEN next_ret' /\ in_handle' = calls /\ out_handle' = calls
         ELSE ~next_ret' /\ position' = 0]_vars

====
